---------------------------- MODULE Spec2Model ----------------------------
(***************************************************************************)
(* A model of the fAST regular-expression inference engine                 *)
(* (nokia/find-abstract-syntax-tree): the RegexpAst arena with its         *)
(* epsilon-reachability, walk, recognition, simplification and prefix      *)
(* linearisation; the mutator catalog; the CBFS scheduler; and the search  *)
(* driver fast_from_strings.                                               *)
(*                                                                         *)
(* Python objects are modelled as values; a method that mutates its        *)
(* receiver is an operator that returns the receiver's new value.  Python  *)
(* lists are sequences, indexed from 0 in the code and from 1 here: the    *)
(* operators that take or return an index keep the code's 0-based index.   *)
(* A Python str is the sequence of its characters; strings are compared    *)
(* by code point, as Python compares them.                                 *)
(***************************************************************************)
EXTENDS Integers, Sequences, FiniteSets, TLC

(***************************************************************************)
(* Generic helpers                                                         *)
(***************************************************************************)
Range(s) == {s[i] : i \in DOMAIN s}

Last(s) == s[Len(s)]

\* d[k] = v of a Python dict: the key is added when it is missing.
Put(f, k, v) == [x \in (DOMAIN f) \cup {k} |-> IF x = k THEN v ELSE f[x]]

\* del d[k] of a Python dict.
Del(f, k) == [x \in (DOMAIN f) \ {k} |-> f[x]]

\* list.index(x): the 0-based position of the first occurrence of x.
IndexOf(s, x) == (CHOOSE i \in DOMAIN s : s[i] = x /\ \A j \in 1..(i - 1) : s[j] # x) - 1

\* s[a:b] of a Python list, 0 <= a, b.
Slice(s, a, b) == SubSeq(s, a + 1, IF b > Len(s) THEN Len(s) ELSE b)

\* The code point of a character that can occur in a prefix regular expression.
Ord(c) ==
    CASE c = "$" -> 36
      [] c = "(" -> 40
      [] c = ")" -> 41
      [] c = "*" -> 42
      [] c = "+" -> 43
      [] c = "," -> 44
      [] c = "." -> 46
      [] c = "?" -> 63
      [] c = "a" -> 97
      [] c = "b" -> 98
      [] c = "c" -> 99
      [] c = "|" -> 124

\* s < t for two Python str (lexicographic, by code point).
RECURSIVE StrLess(_, _)
StrLess(s, t) ==
    IF t = <<>> THEN FALSE
    ELSE IF s = <<>> THEN TRUE
    ELSE IF Ord(Head(s)) # Ord(Head(t)) THEN Ord(Head(s)) < Ord(Head(t))
    ELSE StrLess(Tail(s), Tail(t))

\* A set of arcs as a sequence, in ascending order of (u, v).
ArcLess(a, b) == a[1] < b[1] \/ (a[1] = b[1] /\ a[2] < b[2])

RECURSIVE ArcsAscending(_)
ArcsAscending(S) ==
    IF S = {} THEN <<>>
    ELSE LET m == CHOOSE a \in S : \A b \in S \ {a} : ArcLess(a, b)
         IN <<m>> \o ArcsAscending(S \ {m})

RECURSIVE Reverse(_)
Reverse(s) == IF s = <<>> THEN <<>> ELSE Reverse(Tail(s)) \o <<Head(s)>>

(***************************************************************************)
(* RegexpAst: the arena                                                    *)
(***************************************************************************)
\* Python's None, as a node descriptor.
None == -1

ROOT == "root"

add_node(ast, label) ==
    [ast EXCEPT !.map_node_label = Put(@, ast.nodes_id, label),
                !.map_node_children = Put(@, ast.nodes_id, <<>>),
                !.map_node_parent = Put(@, ast.nodes_id, None),
                !.nodes_id = @ + 1,
                !.num_nodes = @ + 1]

\* A variant of remove_node that does not count the node out.
remove_node_uncounted(ast, u) ==
    [ast EXCEPT !.map_node_label = Del(@, u),
                !.map_node_parent = Del(@, u),
                !.map_node_children = Del(@, u)]

remove_node(ast, u) ==
    [ast EXCEPT !.map_node_label = Del(@, u),
                !.map_node_parent = Del(@, u),
                !.map_node_children = Del(@, u),
                !.num_nodes = @ - 1]

is_downwards_arc(ast, u, v) == ast.map_node_parent[v] = u

is_upwards_arc(ast, u, v) == is_downwards_arc(ast, v, u)

is_unary(ast, u) == ast.map_node_label[u] \in {"+", "*", "?", ROOT}

is_n_ary(ast, u) == ast.map_node_label[u] \in {".", "|"}

is_leaf(ast, u) == ~is_n_ary(ast, u) /\ ~is_unary(ast, u)

get_arc_index(ast, u, v) ==
    IF is_upwards_arc(ast, u, v)
    THEN IndexOf(ast.map_node_children[v], u)
    ELSE IndexOf(ast.map_node_children[u], v)

label(ast, u) == ast.map_node_label[u]

\* A variant of set_label that leaves the label as it is.
set_label_kept(ast, u, lab) == ast

set_label(ast, u, lab) == [ast EXCEPT !.map_node_label[u] = lab]

parent(ast, u) == ast.map_node_parent[u]

children(ast, u) == ast.map_node_children[u]

first_child(ast, u) == ast.map_node_children[u][1]

ith_child(ast, u, i) == ast.map_node_children[u][i + 1]

\* A variant of is_last_child for which every child is the last one: with it,
\* an upward arc into a "." node always continues to the parent.
is_last_child_always(ast, u, v) == TRUE

is_last_child(ast, u, v) == Last(ast.map_node_children[v]) = u

set_child(ast, u, v) ==
    [ast EXCEPT !.map_node_children[u] = <<v>>,
                !.map_node_parent = Put(@, v, u)]

RECURSIVE set_parents(_, _, _)
set_parents(par, vs, u) ==
    IF vs = <<>> THEN par ELSE set_parents(Put(par, Head(vs), u), Tail(vs), u)

set_children(ast, u, vs) ==
    [ast EXCEPT !.map_node_children[u] = vs,
                !.map_node_parent = set_parents(@, vs, u)]

set_ith_child(ast, u, v, i) ==
    [ast EXCEPT !.map_node_children[u][i + 1] = v,
                !.map_node_parent = Put(@, v, u)]

append_child(ast, u, v) ==
    [ast EXCEPT !.map_node_children[u] = Append(@, v),
                !.map_node_parent = Put(@, v, u)]

num_children(ast, u) == Len(ast.map_node_children[u])

\* RegexpAst(): the root sentinel, whose only child is None.
RegexpAst ==
    LET blank == [num_nodes |-> 0, nodes_id |-> 0, root |-> 0,
                  map_node_label |-> <<>>, map_node_parent |-> <<>>,
                  map_node_children |-> <<>>]
        rooted == add_node(blank, ROOT)
    IN set_child(rooted, rooted.root, None)

(***************************************************************************)
(* RegexpAst: epsilon-reachability                                         *)
(***************************************************************************)
epsilon_successors(ast, u, v) ==
    IF v = None
    THEN {<<u, first_child(ast, u)>>}
    ELSE LET v_label == label(ast, v)
         IN {<<u, v>>} \cup
            (IF is_downwards_arc(ast, u, v)
             THEN CASE v_label = "+" -> {<<v, first_child(ast, v)>>}
                    [] v_label = "*" \/ v_label = "?" ->
                           {<<v, u>>, <<v, first_child(ast, v)>>}
                    [] v_label = "." -> {<<v, first_child(ast, v)>>}
                    [] v_label = "|" -> {<<v, child>> : child \in Range(children(ast, v))}
                    [] OTHER -> {}
             ELSE CASE v_label = "+" \/ v_label = "*" ->
                           {<<v, u>>, <<v, parent(ast, v)>>}
                    [] v_label = "?" -> {<<v, parent(ast, v)>>}
                    [] v_label = "." ->
                           IF is_last_child(ast, u, v)
                           THEN {<<v, parent(ast, v)>>}
                           ELSE {<<v, ith_child(ast, v, get_arc_index(ast, v, u) + 1)>>}
                    [] v_label = "|" -> {<<v, parent(ast, v)>>}
                    [] OTHER -> {})

\* The while loop of epsilon_reachables: result is the set of arcs seen, stack
\* the deque of the arcs still to expand, popped from its right end.
RECURSIVE epsilon_reachables_loop(_, _, _)
epsilon_reachables_loop(ast, result, stack) ==
    IF Len(stack) = 0 THEN result
    ELSE LET arc == Last(stack)
             popped == SubSeq(stack, 1, Len(stack) - 1)
             fresh == epsilon_successors(ast, arc[1], arc[2]) \ result
         IN epsilon_reachables_loop(ast, result \cup fresh,
                                    popped \o ArcsAscending(fresh))

epsilon_reachables(ast, u, v) ==
    epsilon_reachables_loop(ast, {<<u, v>>}, <<<<u, v>>>>)

(***************************************************************************)
(* RegexpAst: prefix linearisations                                        *)
(***************************************************************************)
RECURSIVE to_prefix_regexp_str_at(_, _)
RECURSIVE join_prefix_strs(_, _, _)
\* ','.join([to_prefix_regexp_str(v) for v in vs]), from position i of vs
join_prefix_strs(ast, vs, i) ==
    IF i > Len(vs) THEN <<>>
    ELSE (IF i > 1 THEN <<",">> ELSE <<>>)
         \o to_prefix_regexp_str_at(ast, vs[i])
         \o join_prefix_strs(ast, vs, i + 1)

to_prefix_regexp_str_at(ast, u) ==
    LET u_label == label(ast, u)
    IN IF is_n_ary(ast, u)
       THEN <<u_label, "(">> \o join_prefix_strs(ast, children(ast, u), 1) \o <<")">>
       ELSE IF is_unary(ast, u)
       THEN <<u_label>> \o to_prefix_regexp_str_at(ast, first_child(ast, u))
       ELSE <<u_label>>

to_prefix_regexp_str(ast) ==
    IF first_child(ast, ast.root) = None THEN <<>>
    ELSE to_prefix_regexp_str_at(ast, first_child(ast, ast.root))

RECURSIVE to_prefix_regexp_list_at(_, _)
RECURSIVE prefix_list_children(_, _, _, _)
\* the for loop of to_prefix_regexp_list over the children vs of u
prefix_list_children(ast, u, vs, i) ==
    IF i > Len(vs) THEN <<>>
    ELSE (IF vs[i] # first_child(ast, u) THEN <<",">> ELSE <<>>)
         \o to_prefix_regexp_list_at(ast, vs[i])
         \o prefix_list_children(ast, u, vs, i + 1)

to_prefix_regexp_list_at(ast, u) ==
    LET u_label == label(ast, u)
    IN IF is_n_ary(ast, u)
       THEN <<u_label, "(">> \o prefix_list_children(ast, u, children(ast, u), 1)
            \o <<")">>
       ELSE IF is_unary(ast, u)
       THEN <<u_label>> \o to_prefix_regexp_list_at(ast, ast.map_node_children[u][1])
       ELSE <<u_label>>

to_prefix_regexp_list(ast) ==
    IF first_child(ast, ast.root) = None THEN <<>>
    ELSE to_prefix_regexp_list_at(ast, first_child(ast, ast.root))

\* ast.copy(): a deep copy has the value of the original.
copy(ast) == ast

(***************************************************************************)
(* RegexpAst: simplification                                               *)
(***************************************************************************)
RECURSIVE simplify_unary_nodes_at(_, _)
RECURSIVE simplify_unary_nodes_each(_, _)
simplify_unary_nodes_each(ast, vs) ==
    IF vs = <<>> THEN ast
    ELSE simplify_unary_nodes_each(simplify_unary_nodes_at(ast, Head(vs)), Tail(vs))

simplify_unary_nodes_at(ast, u) ==
    IF is_n_ary(ast, u)
    THEN simplify_unary_nodes_each(ast, children(ast, u))
    ELSE IF is_unary(ast, u)
    THEN LET v == first_child(ast, u)
         IN IF is_unary(ast, v)
            THEN LET relabelled == IF label(ast, u) # label(ast, v)
                                   THEN set_label(ast, u, "*") ELSE ast
                     v_child == first_child(relabelled, v)
                     removed == remove_node(set_child(relabelled, u, v_child), v)
                 IN simplify_unary_nodes_at(removed, u)
            ELSE simplify_unary_nodes_at(ast, v)
    ELSE ast

simplify_unary_nodes(ast) ==
    IF first_child(ast, ast.root) = None THEN ast
    ELSE simplify_unary_nodes_at(ast, first_child(ast, ast.root))

merge_n_ary_nodes(ast, u, v) ==
    LET i == get_arc_index(ast, u, v)
        us == ast.map_node_children[u]
        vs == ast.map_node_children[v]
        spliced == [ast EXCEPT !.map_node_children[u] =
                        Slice(us, 0, i) \o vs \o Slice(us, i + 1, Len(us)),
                               !.map_node_parent = set_parents(@, vs, u)]
    IN remove_node(spliced, v)

RECURSIVE simplify_n_ary_nodes_at(_, _)
RECURSIVE simplify_n_ary_nodes_each(_, _)
simplify_n_ary_nodes_each(ast, vs) ==
    IF vs = <<>> THEN ast
    ELSE simplify_n_ary_nodes_each(simplify_n_ary_nodes_at(ast, Head(vs)), Tail(vs))

simplify_n_ary_nodes_at(ast, u) ==
    IF is_unary(ast, u)
    THEN simplify_n_ary_nodes_at(ast, first_child(ast, u))
    ELSE IF is_n_ary(ast, u)
    THEN LET vs == children(ast, u)
             same == {i \in DOMAIN vs : label(ast, vs[i]) = label(ast, u)}
         IN IF same # {}
            THEN LET first == CHOOSE i \in same : \A j \in same : i <= j
                 IN simplify_n_ary_nodes_at(merge_n_ary_nodes(ast, u, vs[first]), u)
            ELSE simplify_n_ary_nodes_each(ast, vs)
    ELSE ast

simplify_n_ary_nodes(ast) ==
    IF first_child(ast, ast.root) = None THEN ast
    ELSE simplify_n_ary_nodes_at(ast, first_child(ast, ast.root))

\* sorted(vs, key=to_prefix_regexp_str): Python's sort is stable, so v goes
\* behind every element whose key is not greater than its own.
RECURSIVE sorted_insert(_, _, _)
sorted_insert(ast, done, v) ==
    IF done = <<>> THEN <<v>>
    ELSE IF StrLess(to_prefix_regexp_str_at(ast, v),
                    to_prefix_regexp_str_at(ast, Last(done)))
    THEN Append(sorted_insert(ast, SubSeq(done, 1, Len(done) - 1), v), Last(done))
    ELSE Append(done, v)

RECURSIVE sorted_by_prefix(_, _, _)
sorted_by_prefix(ast, done, vs) ==
    IF vs = <<>> THEN done
    ELSE sorted_by_prefix(ast, sorted_insert(ast, done, Head(vs)), Tail(vs))

RECURSIVE reorder_or_nodes_at(_, _)
RECURSIVE reorder_or_nodes_each(_, _)
reorder_or_nodes_each(ast, vs) ==
    IF vs = <<>> THEN ast
    ELSE reorder_or_nodes_each(reorder_or_nodes_at(ast, Head(vs)), Tail(vs))

reorder_or_nodes_at(ast, u) ==
    IF is_unary(ast, u)
    THEN reorder_or_nodes_at(ast, first_child(ast, u))
    ELSE IF is_n_ary(ast, u)
    THEN LET below == reorder_or_nodes_each(ast, children(ast, u))
         IN IF label(below, u) = "|"
            THEN [below EXCEPT !.map_node_children[u] =
                                   sorted_by_prefix(below, <<>>, @)]
            ELSE below
    ELSE ast

reorder_or_nodes(ast) ==
    IF first_child(ast, ast.root) = None THEN ast
    ELSE reorder_or_nodes_at(ast, first_child(ast, ast.root))

RECURSIVE remove_unary_n_aries_at(_, _)
RECURSIVE remove_unary_n_aries_each(_, _)
remove_unary_n_aries_each(ast, vs) ==
    IF vs = <<>> THEN ast
    ELSE remove_unary_n_aries_each(remove_unary_n_aries_at(ast, Head(vs)), Tail(vs))

remove_unary_n_aries_at(ast, u) ==
    IF is_unary(ast, u)
    THEN remove_unary_n_aries_at(ast, first_child(ast, u))
    ELSE IF is_n_ary(ast, u)
    THEN IF Len(children(ast, u)) = 1
         THEN LET u_parent == parent(ast, u)
                  i == get_arc_index(ast, u_parent, u)
                  u_child == first_child(ast, u)
                  spliced == remove_node(set_ith_child(ast, u_parent, u_child, i), u)
              IN remove_unary_n_aries_at(spliced, u_child)
         ELSE remove_unary_n_aries_each(ast, children(ast, u))
    ELSE ast

remove_unary_n_aries(ast) ==
    IF first_child(ast, ast.root) = None THEN ast
    ELSE remove_unary_n_aries_at(ast, first_child(ast, ast.root))

simplify(ast) ==
    remove_unary_n_aries(reorder_or_nodes(simplify_n_ary_nodes(simplify_unary_nodes(ast))))

(***************************************************************************)
(* RegexpAst: walk and recognition                                         *)
(***************************************************************************)
walk_one_char(ast, u, a) ==
    {arc[2] : arc \in {e \in epsilon_reachables(ast, u, parent(ast, u)) :
                          e[2] # None /\ label(ast, e[2]) = a}}

RECURSIVE walk_word_from(_, _, _)
walk_word_from(ast, w, possible_locations) ==
    IF w = <<>> THEN possible_locations
    ELSE walk_word_from(ast, Tail(w),
             UNION {walk_one_char(ast, leaf, Head(w)) : leaf \in possible_locations})

walk_word(ast, w) == walk_word_from(ast, w, {ast.root})

\* A variant of recognizes_word without the test of the root: with it, every
\* word that can be walked is accepted.
recognizes_word_without_accept(ast, w) == walk_word(ast, w) # {}

recognizes_word(ast, w) ==
    \E leaf \in walk_word(ast, w) :
        \E arc \in epsilon_reachables(ast, leaf, ast.map_node_parent[leaf]) :
            arc[2] = ast.root

\* recognizes(x) for a str example x
recognizes(ast, x) == recognizes_word(ast, x)

recognizes_prefix(ast, prefix, leaf_to_end_on) ==
    leaf_to_end_on \in walk_word(ast, prefix)

(***************************************************************************)
(* The mutator catalog                                                     *)
(*                                                                         *)
(* mutate returns the list of the pairs (new_ast, new_leaf) as records     *)
(* [ast, leaf, obj].  obj names the Python object that holds the AST: the  *)
(* driver simplifies the mutants in place, so it matters which entries of  *)
(* a list are the same object.  path names the object given as ast; a copy *)
(* made while handling the arc (u, v) in mutator number m gets the name    *)
(* path \o <<u, v, m, n>>, n numbering the copies of that call.            *)
(*                                                                         *)
(* ctx holds what every call of one expansion shares: c (the symbol),      *)
(* prefix_word, previous_words, current_pa (the current example),          *)
(* mutators_to_bounce_on, and arc_order, the order in which a Python set   *)
(* of arcs is iterated.                                                    *)
(***************************************************************************)
NON_BOUCING_MUTATORS ==
    <<"DisjunctionMutator", "BotMutator", "ActivateMutator", "UpDotMutator",
      "DownDotMutator">>

BOUNCING_MUTATORS == <<"BouncePlusMutator", "BounceQuestionMutator">>

MUTATORS == NON_BOUCING_MUTATORS \o BOUNCING_MUTATORS

\* The position of a mutator class in MUTATORS: a name for its copies.
MutatorNumber(name) == IndexOf(MUTATORS, name)

\* for arc in arcs: the order of iteration of a set of arcs.
IterationOrder(arcs, arc_order) ==
    IF arc_order = "ascending" THEN ArcsAscending(arcs)
    ELSE Reverse(ArcsAscending(arcs))

DisjunctionMutator_mutate(ast, ctx, u, v, path) ==
    IF v = None \/ is_upwards_arc(ast, u, v) THEN <<>>
    ELSE LET with_or == add_node(copy(ast), "|")
             new_or_node == ast.nodes_id
             with_leaf == add_node(with_or, ctx.c)
             new_leaf == with_or.nodes_id
             i == get_arc_index(with_leaf, u, v)
             new_ast == append_child(
                            append_child(
                                set_ith_child(with_leaf, u, new_or_node, i),
                                new_or_node, v),
                            new_or_node, new_leaf)
         IN <<[ast |-> new_ast, leaf |-> new_leaf,
               obj |-> path \o <<u, v, MutatorNumber("DisjunctionMutator"), 0>>]>>

\* A variant of BotMutator that also adds its leaf below the root of an AST
\* that is not empty.
BotMutator_mutate_any_ast(ast, ctx, u, v, path) ==
    IF u # ast.root \/ v # None THEN <<>>
    ELSE LET with_leaf == add_node(copy(ast), ctx.c)
             new_leaf == ast.nodes_id
         IN <<[ast |-> set_child(with_leaf, u, new_leaf), leaf |-> new_leaf,
               obj |-> path \o <<u, v, MutatorNumber("BotMutator"), 0>>]>>

BotMutator_mutate(ast, ctx, u, v, path) ==
    IF u # ast.root \/ v # None \/ ast.num_nodes > 1 THEN <<>>
    ELSE LET with_leaf == add_node(copy(ast), ctx.c)
             new_leaf == ast.nodes_id
         IN <<[ast |-> set_child(with_leaf, u, new_leaf), leaf |-> new_leaf,
               obj |-> path \o <<u, v, MutatorNumber("BotMutator"), 0>>]>>

\* The mutant is the object ast itself.
ActivateMutator_mutate(ast, ctx, u, v, path) ==
    IF v = None \/ ~is_leaf(ast, v) \/ label(ast, v) # ctx.c THEN <<>>
    ELSE <<[ast |-> ast, leaf |-> v, obj |-> path]>>

\* A variant of DownDotMutator that puts the new leaf itself, without a "?"
\* node, before v.
DownDotMutator_mutate_without_question(ast, ctx, u, v, path) ==
    IF v = None \/ is_upwards_arc(ast, u, v) THEN <<>>
    ELSE LET with_dot == add_node(copy(ast), ".")
             new_dot_node == ast.nodes_id
             with_leaf == add_node(with_dot, ctx.c)
             new_leaf == with_dot.nodes_id
             i == get_arc_index(with_leaf, u, v)
         IN <<[ast |-> append_child(
                           append_child(
                               set_ith_child(with_leaf, u, new_dot_node, i),
                               new_dot_node, new_leaf),
                           new_dot_node, v),
               leaf |-> new_leaf,
               obj |-> path \o <<u, v, MutatorNumber("DownDotMutator"), 0>>]>>

DownDotMutator_mutate(ast, ctx, u, v, path) ==
    IF v = None \/ is_upwards_arc(ast, u, v) THEN <<>>
    ELSE LET with_dot == add_node(copy(ast), ".")
             new_dot_node == ast.nodes_id
             with_leaf == add_node(with_dot, ctx.c)
             new_leaf == with_dot.nodes_id
             with_question == add_node(with_leaf, "?")
             new_question_node == with_leaf.nodes_id
             i == get_arc_index(with_question, u, v)
             new_ast == set_child(
                            append_child(
                                append_child(
                                    set_ith_child(with_question, u, new_dot_node, i),
                                    new_dot_node, new_question_node),
                                new_dot_node, v),
                            new_question_node, new_leaf)
         IN <<[ast |-> new_ast, leaf |-> new_leaf,
               obj |-> path \o <<u, v, MutatorNumber("DownDotMutator"), 0>>]>>

\* The AST that UpDotMutator builds first: a "." node in the middle of the
\* upward arc, over u and a new leaf.
UpDot_plain(ast, ctx, u, v) ==
    LET with_dot == add_node(copy(ast), ".")
        new_dot_node == ast.nodes_id
        with_leaf == add_node(with_dot, ctx.c)
        new_leaf == with_dot.nodes_id
        i == get_arc_index(with_leaf, v, u)
    IN append_child(
           append_child(set_ith_child(with_leaf, v, new_dot_node, i),
                        new_dot_node, u),
           new_dot_node, new_leaf)

\* The case where the new leaf gets a "?" node.
UpDot_question(new_ast, new_dot_node, new_leaf) ==
    LET with_question == add_node(new_ast, "?")
        new_question_node == new_ast.nodes_id
        j == get_arc_index(with_question, new_dot_node, new_leaf)
    IN set_child(set_ith_child(with_question, new_dot_node,
                               new_question_node, j),
                 new_question_node, new_leaf)

\* A variant of UpDotMutator that wraps the new leaf in every case.
UpDotMutator_mutate_always_wraps(ast, ctx, u, v, path) ==
    IF v = None \/ is_downwards_arc(ast, u, v) THEN <<>>
    ELSE <<[ast |-> UpDot_question(UpDot_plain(ast, ctx, u, v),
                                   ast.nodes_id, ast.nodes_id + 1),
            leaf |-> ast.nodes_id + 1,
            obj |-> path \o <<u, v, MutatorNumber("UpDotMutator"), 0>>]>>

\* A variant of UpDotMutator that never wraps the new leaf.
UpDotMutator_mutate_never_wraps(ast, ctx, u, v, path) ==
    IF v = None \/ is_downwards_arc(ast, u, v) THEN <<>>
    ELSE <<[ast |-> UpDot_plain(ast, ctx, u, v),
            leaf |-> ast.nodes_id + 1,
            obj |-> path \o <<u, v, MutatorNumber("UpDotMutator"), 0>>]>>

UpDotMutator_mutate(ast, ctx, u, v, path) ==
    IF v = None \/ is_downwards_arc(ast, u, v) THEN <<>>
    ELSE LET with_dot == add_node(copy(ast), ".")
             new_dot_node == ast.nodes_id
             with_leaf == add_node(with_dot, ctx.c)
             new_leaf == with_dot.nodes_id
             i == get_arc_index(with_leaf, v, u)
             new_ast == append_child(
                            append_child(
                                set_ith_child(with_leaf, v, new_dot_node, i),
                                new_dot_node, u),
                            new_dot_node, new_leaf)
             obj == path \o <<u, v, MutatorNumber("UpDotMutator"), 0>>
         IN \* current_pa is a str: the branch of recognizes_prefix
            IF recognizes_prefix(new_ast, ctx.prefix_word, new_leaf)
               /\ \A n \in DOMAIN ctx.previous_words :
                      recognizes(new_ast, ctx.previous_words[n])
            THEN <<[ast |-> new_ast, leaf |-> new_leaf, obj |-> obj]>>
            ELSE LET with_question == add_node(new_ast, "?")
                     new_question_node == new_ast.nodes_id
                     j == get_arc_index(with_question, new_dot_node, new_leaf)
                 IN <<[ast |-> set_child(
                                   set_ith_child(with_question, new_dot_node,
                                                 new_question_node, j),
                                   new_question_node, new_leaf),
                       leaf |-> new_leaf, obj |-> obj]>>

\* itertools.combinations(s, r), in the order itertools yields them.
RECURSIVE combinations(_, _)
combinations(s, r) ==
    IF r = 0 THEN <<<<>>>>
    ELSE IF Len(s) < r THEN <<>>
    ELSE LET with_head == combinations(Tail(s), r - 1)
         IN [n \in 1..Len(with_head) |-> <<Head(s)>> \o with_head[n]]
            \o combinations(Tail(s), r)

\* chain.from_iterable(combinations(others, n) for n in range(1, len(others)))
RECURSIVE child_combis(_, _)
child_combis(others, num_others) ==
    IF num_others >= Len(others) THEN <<>>
    ELSE combinations(others, num_others) \o child_combis(others, num_others + 1)

\* The loop that repairs the arcs of local_eps_reachables between host and the
\* children moved below fresh: (child, host) becomes (child, fresh) and
\* (host, child) becomes (fresh, child).
RECURSIVE repair_eps_reachables(_, _, _, _)
repair_eps_reachables(local, moved, host, fresh) ==
    IF moved = <<>> THEN local
    ELSE LET child == Head(moved)
             up == IF <<child, host>> \in local
                   THEN (local \ {<<child, host>>}) \cup {<<child, fresh>>}
                   ELSE local
             down == IF <<host, child>> \in up
                     THEN (up \ {<<host, child>>}) \cup {<<fresh, child>>}
                     ELSE up
         IN repair_eps_reachables(down, Tail(moved), host, fresh)

\* An entry of asts_to_bounce_on that bounces on every reachable arc, the
\* arcs of local_eps_reachables included.
BounceOn_every_arc(new_ast, local_eps_reachables, new_eps_reachables, n) ==
    [new_ast |-> new_ast,
     all_epsilon_reachables |-> new_eps_reachables \cup local_eps_reachables,
     newly_eps_reachables |-> new_eps_reachables \cup local_eps_reachables,
     n |-> n]

\* One entry of asts_to_bounce_on.
BounceOn(new_ast, local_eps_reachables, new_eps_reachables, n) ==
    [new_ast |-> new_ast,
     all_epsilon_reachables |-> new_eps_reachables \cup local_eps_reachables,
     newly_eps_reachables |-> new_eps_reachables \ local_eps_reachables,
     n |-> n]

RECURSIVE mutate(_, _, _, _, _, _, _)

\* for mutator in self.mutators_to_bounce_on: result += mutator(...).mutate(...)
RECURSIVE bounce_on_arc(_, _, _, _, _)
bounce_on_arc(entry, ctx, arc, names, path) ==
    IF names = <<>> THEN <<>>
    ELSE mutate(Head(names), entry.new_ast, ctx, arc[1], arc[2],
                entry.all_epsilon_reachables, path)
         \o bounce_on_arc(entry, ctx, arc, Tail(names), path)

\* for uu, vv in newly_eps_reachables: ...
RECURSIVE bounce_on_arcs(_, _, _, _)
bounce_on_arcs(entry, ctx, arcs, path) ==
    IF arcs = <<>> THEN <<>>
    ELSE bounce_on_arc(entry, ctx, Head(arcs), ctx.mutators_to_bounce_on, path)
         \o bounce_on_arcs(entry, ctx, Tail(arcs), path)

\* for new_ast, all_epsilon_reachables, newly_eps_reachables in asts_to_bounce_on
RECURSIVE bounce_on_asts(_, _, _)
bounce_on_asts(asts_to_bounce_on, ctx, call) ==
    IF asts_to_bounce_on = <<>> THEN <<>>
    ELSE LET entry == Head(asts_to_bounce_on)
         IN bounce_on_arcs(entry, ctx,
                           IterationOrder(entry.newly_eps_reachables, ctx.arc_order),
                           call \o <<entry.n>>)
            \o bounce_on_asts(Tail(asts_to_bounce_on), ctx, call)

\* BouncePlusMutator: the AST with a '+' between u and v
BouncePlus_simple(ast, u, v, epsilon_reachables_) ==
    LET with_plus == add_node(copy(ast), "+")
        new_plus_node == ast.nodes_id
        new_ast == set_child(
                       set_ith_child(with_plus, v, new_plus_node,
                                     get_arc_index(with_plus, v, u)),
                       new_plus_node, u)
        local_eps_reachables ==
            (epsilon_reachables_ \cup {<<new_plus_node, v>>, <<u, new_plus_node>>})
            \ {<<u, v>>}
    IN BounceOn(new_ast, local_eps_reachables,
                epsilon_reachables(new_ast, new_plus_node, u), 0)

\* BouncePlusMutator, v a '.': the children j..i of v go below a new '+' '.'
BouncePlus_dot(ast, u, v, epsilon_reachables_, i, j) ==
    LET with_plus == add_node(copy(ast), "+")
        new_plus_node == ast.nodes_id
        with_dot == add_node(with_plus, ".")
        new_dot_node == with_plus.nodes_id
        v_children == children(with_dot, v)
        moved == Slice(v_children, j, i + 1)
        new_ast ==
            set_children(
                set_child(
                    set_children(with_dot, v,
                                 Slice(v_children, 0, j) \o <<new_plus_node>>
                                 \o Slice(v_children, i + 1, Len(v_children))),
                    new_plus_node, new_dot_node),
                new_dot_node, moved)
        local_eps_reachables ==
            repair_eps_reachables(
                (epsilon_reachables_ \ {<<u, v>>})
                \cup {<<u, new_dot_node>>, <<new_dot_node, new_plus_node>>,
                      <<new_plus_node, v>>},
                moved, v, new_dot_node)
    IN BounceOn(new_ast, local_eps_reachables,
                epsilon_reachables(new_ast, new_plus_node, new_dot_node), j + 1)

RECURSIVE BouncePlus_dots(_, _, _, _, _, _)
BouncePlus_dots(ast, u, v, epsilon_reachables_, i, j) ==
    IF j >= i THEN <<>>
    ELSE (IF i = num_children(ast, v) /\ j = 0 THEN <<>>
          ELSE <<BouncePlus_dot(ast, u, v, epsilon_reachables_, i, j)>>)
         \o BouncePlus_dots(ast, u, v, epsilon_reachables_, i, j + 1)

\* BouncePlusMutator, v a '|': u and the children child_combi of v go below a
\* new '+' '|'.  The entry is the empty list when no child would stay.
BouncePlus_or(ast, u, v, epsilon_reachables_, child_combi, n) ==
    LET with_plus == add_node(copy(ast), "+")
        new_plus_node == ast.nodes_id
        with_or == add_node(with_plus, "|")
        new_or_node == with_plus.nodes_id
        children_leaving == child_combi \o <<u>>
        children_staying ==
            SelectSeq(children(with_or, v),
                      LAMBDA child : child \notin Range(children_leaving))
        new_ast ==
            set_children(
                set_child(
                    set_children(with_or, v, children_staying \o <<new_plus_node>>),
                    new_plus_node, new_or_node),
                new_or_node, children_leaving)
        local_eps_reachables ==
            repair_eps_reachables(
                (epsilon_reachables_ \ {<<u, v>>})
                \cup {<<u, new_or_node>>, <<new_or_node, new_plus_node>>,
                      <<new_plus_node, v>>},
                children_leaving, v, new_or_node)
    IN IF Len(children_staying) = 0 THEN <<>>
       ELSE <<BounceOn(new_ast, local_eps_reachables,
                       epsilon_reachables(new_ast, new_plus_node, new_or_node), n)>>

RECURSIVE BouncePlus_ors(_, _, _, _, _, _)
BouncePlus_ors(ast, u, v, epsilon_reachables_, combis, n) ==
    IF n > Len(combis) THEN <<>>
    ELSE BouncePlus_or(ast, u, v, epsilon_reachables_, combis[n], n)
         \o BouncePlus_ors(ast, u, v, epsilon_reachables_, combis, n + 1)

\* BouncePlusMutator: asts_to_bounce_on, empty where the mutator returns [] at
\* its condition.
BouncePlus_asts_to_bounce_on(ast, u, v, epsilon_reachables_) ==
    IF v = None \/ is_downwards_arc(ast, u, v) \/ <<v, u>> \in epsilon_reachables_
    THEN <<>>
    ELSE LET i == get_arc_index(ast, v, u)
             vs == children(ast, v)
             others == Slice(vs, 0, i) \o Slice(vs, i + 1, Len(vs))
         IN <<BouncePlus_simple(ast, u, v, epsilon_reachables_)>>
            \o (IF is_n_ary(ast, v) /\ label(ast, v) = "."
                THEN BouncePlus_dots(ast, u, v, epsilon_reachables_, i, 0)
                ELSE <<>>)
            \o (IF is_n_ary(ast, v) /\ label(ast, v) = "|"
                THEN BouncePlus_ors(ast, u, v, epsilon_reachables_,
                                    child_combis(others, 1), 1)
                ELSE <<>>)

BouncePlusMutator_mutate(ast, ctx, u, v, epsilon_reachables_, path) ==
    bounce_on_asts(BouncePlus_asts_to_bounce_on(ast, u, v, epsilon_reachables_), ctx,
                   path \o <<u, v, MutatorNumber("BouncePlusMutator")>>)

\* BounceQuestionMutator: the AST with a '?' between u and v
BounceQuestion_simple(ast, u, v, epsilon_reachables_) ==
    LET with_question == add_node(copy(ast), "?")
        new_question_node == ast.nodes_id
        new_ast == set_child(
                       set_ith_child(with_question, u, new_question_node,
                                     get_arc_index(with_question, u, v)),
                       new_question_node, v)
        local_eps_reachables ==
            (epsilon_reachables_
             \cup {<<u, new_question_node>>, <<new_question_node, v>>})
            \ {<<u, v>>}
    IN BounceOn(new_ast, local_eps_reachables,
                epsilon_reachables(new_ast, new_question_node, u), 0)

\* BounceQuestionMutator, u a '.': the children i..j of u go below a new '?' '.'
BounceQuestion_dot(ast, u, v, epsilon_reachables_, i, j) ==
    LET with_question == add_node(copy(ast), "?")
        new_question_node == ast.nodes_id
        with_dot == add_node(with_question, ".")
        new_dot_node == with_question.nodes_id
        u_children == children(with_dot, u)
        moved == Slice(u_children, i, j + 1)
        new_ast ==
            set_children(
                set_child(
                    set_children(with_dot, u,
                                 Slice(u_children, 0, i) \o <<new_question_node>>
                                 \o Slice(u_children, j + 1, Len(u_children))),
                    new_question_node, new_dot_node),
                new_dot_node, moved)
        local_eps_reachables ==
            repair_eps_reachables(
                (epsilon_reachables_ \ {<<u, v>>})
                \cup {<<u, new_question_node>>, <<new_question_node, new_dot_node>>,
                      <<new_dot_node, v>>},
                moved, u, new_dot_node)
    IN BounceOn(new_ast, local_eps_reachables,
                epsilon_reachables(new_ast, new_question_node, u), j)

RECURSIVE BounceQuestion_dots(_, _, _, _, _, _)
BounceQuestion_dots(ast, u, v, epsilon_reachables_, i, j) ==
    IF j >= num_children(ast, u) THEN <<>>
    ELSE (IF i = 0 /\ j = num_children(ast, u) - 1 THEN <<>>
          ELSE <<BounceQuestion_dot(ast, u, v, epsilon_reachables_, i, j)>>)
         \o BounceQuestion_dots(ast, u, v, epsilon_reachables_, i, j + 1)

\* BounceQuestionMutator, u a '|': v and the children child_combi of u go below
\* a new '?' '|'.
BounceQuestion_or(ast, u, v, epsilon_reachables_, child_combi, n) ==
    LET with_question == add_node(copy(ast), "?")
        new_question_node == ast.nodes_id
        with_or == add_node(with_question, "|")
        new_or_node == with_question.nodes_id
        children_leaving == child_combi \o <<v>>
        children_staying ==
            SelectSeq(children(with_or, u),
                      LAMBDA child : child \notin Range(children_leaving))
        new_ast ==
            set_children(
                set_child(
                    set_children(with_or, u, children_staying \o <<new_question_node>>),
                    new_question_node, new_or_node),
                new_or_node, children_leaving)
        local_eps_reachables ==
            repair_eps_reachables(
                (epsilon_reachables_ \ {<<u, v>>})
                \cup {<<u, new_question_node>>, <<new_question_node, new_or_node>>,
                      <<new_or_node, v>>},
                children_leaving, u, new_or_node)
    IN IF Len(children_staying) = 0 THEN <<>>
       ELSE <<BounceOn(new_ast, local_eps_reachables,
                       epsilon_reachables(new_ast, new_question_node, u), n)>>

RECURSIVE BounceQuestion_ors(_, _, _, _, _, _)
BounceQuestion_ors(ast, u, v, epsilon_reachables_, combis, n) ==
    IF n > Len(combis) THEN <<>>
    ELSE BounceQuestion_or(ast, u, v, epsilon_reachables_, combis[n], n)
         \o BounceQuestion_ors(ast, u, v, epsilon_reachables_, combis, n + 1)

\* BounceQuestionMutator: asts_to_bounce_on, empty where the mutator returns []
\* at its condition.
BounceQuestion_asts_to_bounce_on(ast, u, v, epsilon_reachables_) ==
    IF v = None \/ is_upwards_arc(ast, u, v) \/ <<v, u>> \in epsilon_reachables_
    THEN <<>>
    ELSE LET i == get_arc_index(ast, u, v)
             us == children(ast, u)
             others == Slice(us, 0, i) \o Slice(us, i + 1, Len(us))
         IN <<BounceQuestion_simple(ast, u, v, epsilon_reachables_)>>
            \o (IF is_n_ary(ast, u) /\ label(ast, u) = "."
                THEN BounceQuestion_dots(ast, u, v, epsilon_reachables_, i, i + 1)
                ELSE <<>>)
            \o (IF is_n_ary(ast, u) /\ label(ast, u) = "|"
                THEN BounceQuestion_ors(ast, u, v, epsilon_reachables_,
                                        child_combis(others, 1), 1)
                ELSE <<>>)

BounceQuestionMutator_mutate(ast, ctx, u, v, epsilon_reachables_, path) ==
    bounce_on_asts(BounceQuestion_asts_to_bounce_on(ast, u, v, epsilon_reachables_), ctx,
                   path \o <<u, v, MutatorNumber("BounceQuestionMutator")>>)

\* mutator.mutate(ast, c, u, v, prefix_word, previous_words, epsilon_reachables,
\* current_pa) for the mutator class called name
mutate(name, ast, ctx, u, v, epsilon_reachables_, path) ==
    CASE name = "DisjunctionMutator" -> DisjunctionMutator_mutate(ast, ctx, u, v, path)
      [] name = "BotMutator" -> BotMutator_mutate(ast, ctx, u, v, path)
      [] name = "ActivateMutator" -> ActivateMutator_mutate(ast, ctx, u, v, path)
      [] name = "UpDotMutator" -> UpDotMutator_mutate(ast, ctx, u, v, path)
      [] name = "DownDotMutator" -> DownDotMutator_mutate(ast, ctx, u, v, path)
      [] name = "BouncePlusMutator" ->
             BouncePlusMutator_mutate(ast, ctx, u, v, epsilon_reachables_, path)
      [] name = "BounceQuestionMutator" ->
             BounceQuestionMutator_mutate(ast, ctx, u, v, epsilon_reachables_, path)

(***************************************************************************)
(* prefix_regexp_to_ast.  The result is a record: raised is TRUE when the   *)
(* function ends by an exception (deque.pop on the empty stack, or the      *)
(* final assert), and ast is the AST it returns otherwise.                  *)
(***************************************************************************)
RECURSIVE prefix_regexp_to_ast_loop(_, _, _)
prefix_regexp_to_ast_loop(ast, stack, prefix_regexp) ==
    IF prefix_regexp = <<>>
    THEN IF Len(stack) = 0
         THEN [raised |-> FALSE, ast |-> simplify(ast)]
         ELSE [raised |-> TRUE, ast |-> ast]
    ELSE IF Len(stack) = 0 THEN [raised |-> TRUE, ast |-> ast]
    ELSE LET top == Last(stack)
             popped == SubSeq(stack, 1, Len(stack) - 1)
             u == top[1]
             child_idx == top[2]
             with_v == add_node(ast, Head(prefix_regexp))
             v == ast.nodes_id
             linked == IF child_idx = 1 THEN set_child(with_v, u, v)
                       ELSE append_child(with_v, u, v)
             pushed == IF is_n_ary(linked, v) THEN popped \o <<<<v, 2>>, <<v, 1>>>>
                       ELSE IF is_unary(linked, v) THEN popped \o <<<<v, 1>>>>
                       ELSE popped
         IN prefix_regexp_to_ast_loop(linked, pushed, Tail(prefix_regexp))

prefix_regexp_to_ast(prefix_regexp) ==
    prefix_regexp_to_ast_loop(RegexpAst, <<<<RegexpAst.root, 1>>>>, prefix_regexp)

(***************************************************************************)
(* CBFS: one heap per depth.  A heap is the set of its items; heappop takes *)
(* the least item, items being tuples that start by (value, counter).       *)
(***************************************************************************)
\* A variant of the constructor with a quota of two pops per heap and cycle.
CBFS_init_quota_two(num_queues, pop_idx) ==
    [queues |-> [d \in 0..(num_queues - 1) |-> {}],
     num_queues |-> num_queues,
     pop_idx |-> pop_idx,
     num_popped |-> 0,
     num_to_pop |-> 2,
     num_items |-> 0]

\* CBFS(num_queues, pop_idx)
CBFS_init(num_queues, pop_idx) ==
    [queues |-> [d \in 0..(num_queues - 1) |-> {}],
     num_queues |-> num_queues,
     pop_idx |-> pop_idx,
     num_popped |-> 0,
     num_to_pop |-> 1,
     num_items |-> 0]

\* CBFS(num_queues): pop_idx has its default value.
CBFS(num_queues) == CBFS_init(num_queues, 0)

ItemLess(x, y) ==
    x.value < y.value \/ (x.value = y.value /\ x.counter < y.counter)

\* A variant of heappop that takes the greatest item.
heappop_greatest(heap) == CHOOSE x \in heap : \A y \in heap \ {x} : ItemLess(y, x)

heappop(heap) == CHOOSE x \in heap : \A y \in heap \ {x} : ItemLess(x, y)

\* while len(self.queues[self.pop_idx]) == 0: ...
RECURSIVE CBFS_skip_empty(_)
CBFS_skip_empty(q) ==
    IF q.queues[q.pop_idx] = {}
    THEN CBFS_skip_empty([q EXCEPT !.pop_idx = (q.pop_idx + 1) % q.num_queues,
                                   !.num_popped = 0])
    ELSE q

\* A variant of pop without the test of num_items, which returns from an
\* empty CBFS.
CBFS_pop_unguarded(q) ==
    [q |-> [q EXCEPT !.num_popped = @ + 1, !.num_items = @ - 1],
     result |-> <<>>,
     raised |-> FALSE]

\* pop(): [q |-> the CBFS after the call, result |-> the popped item,
\* raised |-> the call raised RuntimeError].
CBFS_pop(q) ==
    IF q.num_items = 0 THEN [q |-> q, result |-> <<>>, raised |-> TRUE]
    ELSE
    LET cycled == IF q.num_popped = q.num_to_pop
                  THEN [q EXCEPT !.pop_idx = (q.pop_idx + 1) % q.num_queues,
                                 !.num_popped = 0]
                  ELSE q
        at == CBFS_skip_empty(cycled)
        result == heappop(at.queues[at.pop_idx])
    IN [q |-> [at EXCEPT !.queues[at.pop_idx] = @ \ {result},
                         !.num_popped = @ + 1,
                         !.num_items = @ - 1],
        result |-> result,
        raised |-> FALSE]

\* A variant of push that does not count the item.
CBFS_push_uncounted(q, item, push_idx) ==
    [q EXCEPT !.queues[push_idx] = @ \cup {item}]

CBFS_push(q, item, push_idx) ==
    [q EXCEPT !.queues[push_idx] = @ \cup {item}, !.num_items = @ + 1]

CBFS_is_empty(q) == q.num_items <= 0

(***************************************************************************)
(* fast_from_strings on plain strings.                                     *)
(*                                                                         *)
(* An AST object is a number; store maps every object to its current       *)
(* value, so that two references to one object see the calls of simplify() *)
(* made through either.  A pq_item is a record [value, counter, ast,       *)
(* active_leaf, i, k] whose ast field is an object.                        *)
(***************************************************************************)
RECURSIVE sum_len(_)
sum_len(words) ==
    IF words = <<>> THEN 0 ELSE Len(Head(words)) + sum_len(Tail(words))

indices_to_depth(exs, i, k) == sum_len(SubSeq(exs, 1, i)) + k

\* The str branch.  It reads w, the variable of the enclosing function, and
\* not its argument example.
next_symbols(example, j, w) == <<[sigma |-> w[j + 1], k |-> j + 1]>>

\* A variant of total_depth without the layer of the complete progression.
total_depth_of_symbols(exs) == sum_len(exs)

total_depth(exs) == sum_len(exs) + 1

\* sep.join(tokens)
RECURSIVE join(_, _)
join(sep, tokens) ==
    IF Len(tokens) <= 1 THEN tokens
    ELSE <<Head(tokens), sep>> \o join(sep, Tail(tokens))

\* The objective function of make_additive_objective_func_for_str with
\* density_factor = 0: size_factor * size.
objective_function(size_factor, ast) == size_factor * ast.num_nodes

\* A variant of the stop condition that never stops the loop.
stop_condition_never(results) == FALSE

\* The default stop condition.
stop_condition(results) == Len(results) = 1

\* The stop_condition argument of a call: the default one ("first"), or a
\* callable of the caller that never returns true ("never").
stop_condition_of(stop_, results) ==
    IF stop_ = "never" THEN FALSE ELSE stop_condition(results)

\* mutators = [mutator(MUTATORS) for mutator in MUTATORS]
mutators == MUTATORS

(***************************************************************************)
(* The visitors                                                            *)
(*                                                                         *)
(* A visitor is its class and the attributes set on the object so far.  A  *)
(* hook returns the visitor as it leaves it, and raised when it reads an   *)
(* attribute that is not set (AttributeError).  Times are not modelled:    *)
(* time_start and time_elapsed are 0.                                      *)
(***************************************************************************)
FindAstFromStringsDefaultVisitor == [class |-> "Default", attrs |-> <<>>]

FindAstFromStringsVerboseVisitor ==
    [class |-> "Verbose", attrs |-> [verbose_level |-> 1]]

FindAstFromStringsEvaluateVisitor ==
    [class |-> "Evaluate", attrs |-> [results |-> <<>>]]

returned(visitor) == [visitor |-> visitor, raised |-> FALSE]

attribute_error(visitor) == [visitor |-> visitor, raised |-> TRUE]

has_attrs(visitor, names) == names \subseteq DOMAIN visitor.attrs

visit_init_sample(visitor, exs) ==
    CASE visitor.class = "Default" -> returned(visitor)
      [] visitor.class = "Verbose" ->
             returned([visitor EXCEPT
                 !.attrs = Put(Put(@, "num_pops", 0), "time_start", 0)])
      [] visitor.class = "Evaluate" ->
             returned([visitor EXCEPT
                 !.attrs = Put(Put(Put(Put(Put(@, "examples", exs),
                                           "time_start", 0),
                                       "num_pops", 0),
                                   "num_pushs", 0),
                               "current_results", <<>>)])

visit_pop_item(visitor, pq_item) ==
    CASE visitor.class = "Default" -> returned(visitor)
      [] visitor.class = "Verbose" ->
             IF ~has_attrs(visitor, {"num_pops", "time_start"})
             THEN attribute_error(visitor)
             ELSE returned([visitor EXCEPT !.attrs.num_pops = @ + 1])
      [] visitor.class = "Evaluate" ->
             IF ~has_attrs(visitor, {"num_pops"}) THEN attribute_error(visitor)
             ELSE returned([visitor EXCEPT !.attrs.num_pops = @ + 1])

visit_push_item(visitor, new_depth, new_pq_item) ==
    CASE visitor.class \in {"Default", "Verbose"} -> returned(visitor)
      [] visitor.class = "Evaluate" ->
             IF ~has_attrs(visitor, {"num_pushs"}) THEN attribute_error(visitor)
             ELSE returned([visitor EXCEPT !.attrs.num_pushs = @ + 1])

visit_final_solution(visitor, obj_func_value, ast) ==
    CASE visitor.class \in {"Default", "Verbose"} -> returned(visitor)
      [] visitor.class = "Evaluate" ->
             IF ~has_attrs(visitor, {"time_start", "current_results"})
             THEN attribute_error(visitor)
             ELSE returned([visitor EXCEPT
                      !.attrs.current_results =
                          Append(@, <<obj_func_value, ast, 0>>)])

\* An arc of the set computed at the pop is live when it is still an arc of
\* the popped object; a mutator given an arc that is not raises (KeyError
\* or ValueError).
arc_is_live(ast, u, v) ==
    \/ v = None
    \/ /\ u \in DOMAIN ast.map_node_label
       /\ v \in DOMAIN ast.map_node_label
       /\ (ast.map_node_parent[v] = u \/ ast.map_node_parent[u] = v)

\* The body of "for (new_ast, new_active_leaf) in mutated_asts" for the
\* mutant r: simplify() in place, was_already_pushed, compute_objective_value,
\* push, visit_push_item.  st.fresh maps the objects made by the current pop to their numbers;
\* st.changed collects the objects whose tree simplify() changed while an item
\* in a heap held them or while they were being expanded.
held_objects(q) == {item.ast : item \in UNION Range(q.queues)}

\* A variant of was_already_pushed that finds no key recorded.
was_already_pushed_never(recorded, ast_key, push_idx) == FALSE

\* The test of was_already_pushed; push_mutant records the key.
was_already_pushed(recorded, ast_key, push_idx) == ast_key \in recorded[push_idx]

\* A variant that gives the next item the counter of the last one.
next_ast_counter_same(counter) == counter

\* ast_counter += 1, after a push
next_ast_counter(counter) == counter + 1

push_mutant(st, r, env) ==
    LET known == r.obj = <<>> \/ r.obj \in DOMAIN st.fresh
        obj == IF r.obj = <<>> THEN env.popped_obj
               ELSE IF known THEN st.fresh[r.obj]
               ELSE st.num_objects
        new_ast == simplify(IF known THEN st.store[obj] ELSE r.ast)
        new_depth == indices_to_depth(env.examples, env.i, env.k)
        regexp_key == join("$", to_prefix_regexp_list(new_ast))
        ast_key == <<regexp_key, r.leaf>>
        simplified ==
            [st EXCEPT !.store = Put(@, obj, new_ast),
                       !.changed =
                           IF /\ known
                              /\ to_prefix_regexp_list(new_ast)
                                     # to_prefix_regexp_list(st.store[obj])
                              /\ obj \in held_objects(st.cbfs_q)
                                           \cup {env.popped_obj}
                           THEN @ \cup {obj} ELSE @,
                       !.fresh = IF known THEN @ ELSE Put(@, r.obj, obj),
                       !.num_objects = IF known THEN @ ELSE @ + 1]
        values == IF regexp_key \in DOMAIN st.map_regexp_value
                  THEN st.map_regexp_value
                  ELSE Put(st.map_regexp_value, regexp_key,
                           objective_function(env.size_factor, new_ast))
        new_pq_item == [value |-> values[regexp_key],
                        counter |-> st.ast_counter,
                        ast |-> obj,
                        active_leaf |-> r.leaf,
                        i |-> env.i,
                        k |-> env.k]
        notified == visit_push_item(st.visitor, new_depth, new_pq_item)
    IN IF was_already_pushed(st.pushed_regexps, ast_key, new_depth)
       THEN simplified
       ELSE [simplified EXCEPT
                 !.pushed_regexps[new_depth] = @ \cup {ast_key},
                 !.map_regexp_value = values,
                 !.cbfs_q = CBFS_push(@, new_pq_item, new_depth),
                 !.visitor = notified.visitor,
                 !.raised = notified.raised,
                 !.ast_counter = IF notified.raised THEN @
                                 ELSE next_ast_counter(@)]

RECURSIVE push_mutants(_, _, _)
push_mutants(st, mutated_asts, env) ==
    IF st.raised \/ mutated_asts = <<>> THEN st
    ELSE push_mutants(push_mutant(st, Head(mutated_asts), env),
                      Tail(mutated_asts), env)

\* One turn of the loops over the arcs and the mutators: mutate the popped
\* object as it is now, then push the mutants.
expand_call(st, arc, name, env) ==
    LET ast == st.store[env.popped_obj]
    IN IF ~arc_is_live(ast, arc[1], arc[2]) THEN [st EXCEPT !.raised = TRUE]
       ELSE push_mutants(
                st,
                mutate(name, ast, env.ctx, arc[1], arc[2],
                       env.epsilon_reachable_arcs, <<>>),
                env)

RECURSIVE expand_mutators(_, _, _, _)
expand_mutators(st, arc, names, env) ==
    IF st.raised \/ names = <<>> THEN st
    ELSE expand_mutators(expand_call(st, arc, Head(names), env),
                         arc, Tail(names), env)

RECURSIVE expand_arcs(_, _, _)
expand_arcs(st, arcs, env) ==
    IF st.raised \/ arcs = <<>> THEN st
    ELSE expand_arcs(expand_mutators(st, Head(arcs), mutators, env),
                     Tail(arcs), env)

(***************************************************************************)
(* Bounds of the inputs                                                    *)
(***************************************************************************)
Alphabet == {"a", "b"}

MaxWordLen == 2

MaxExamples == 2

\* The non-empty words of at most n symbols.
WordsUpTo(n) == UNION {[1..m -> Alphabet] : m \in 1..n}

MaxTotalLen == 3

\* The lists of examples of a run: plain strings, none empty.
ExampleLists ==
    {exs \in UNION {[1..m -> WordsUpTo(MaxWordLen)] : m \in 1..MaxExamples} :
         sum_len(exs) <= MaxTotalLen}

(***************************************************************************)
(* State of a run of fast_from_strings                                     *)
(*                                                                         *)
(* examples, size_factor, arc_order, visitor and stop are the inputs of    *)
(* the run, stop naming its stop_condition ("first" or "never");          *)
(* frame holds the local variables of the main loop as its last iteration  *)
(* left them, branch, the way that iteration ended, and changed, the       *)
(* objects that the iteration changed while a heap item held them; pc is   *)
(* "loop" while the loop runs, "done" once the function has returned       *)
(* final_results, and "error" once it has raised.  fast_args, f_obj and    *)
(* evaluation belong to the caller of fast(): its arguments, the objective *)
(* function it makes and the last evaluation of that function.             *)
(***************************************************************************)
VARIABLES examples, size_factor, arc_order, store, num_objects, cbfs_q,
          pushed_regexps, map_regexp_value, final_results, ast_counter,
          frame, pc, visitor, stop,
          tree, phase, before, parsed,
          cbfs, cbfs_log,
          fast_args, f_obj, evaluation

run_vars == <<examples, size_factor, arc_order, store, num_objects, cbfs_q,
              pushed_regexps, map_regexp_value, final_results, ast_counter,
              frame, pc, visitor, stop>>

ast_vars == <<tree, phase, before, parsed>>

cbfs_vars == <<cbfs, cbfs_log>>

obj_vars == <<fast_args, f_obj, evaluation>>

vars == <<run_vars, ast_vars, cbfs_vars, obj_vars>>

initial_pq_item ==
    [value |-> 0, counter |-> 0, ast |-> 0, active_leaf |-> RegexpAst.root,
     i |-> 0, k |-> 0]

\* The visitor the caller passes: the default one, a verbose or a metrics
\* visitor as constructed, or a metrics visitor on which the caller has
\* called visit_init_sample itself.
Visitors(exs) ==
    {FindAstFromStringsDefaultVisitor,
     FindAstFromStringsVerboseVisitor,
     FindAstFromStringsEvaluateVisitor,
     visit_init_sample(FindAstFromStringsEvaluateVisitor, exs).visitor}

\* The state when the main loop is entered, for a run on one of the lists.
InitRunOn(lists) ==
    /\ examples \in lists
    /\ size_factor \in {0, 1}
    /\ arc_order \in {"ascending", "descending"}
    /\ visitor \in Visitors(examples)
    /\ store = [obj \in {0} |-> RegexpAst]
    /\ num_objects = 1
    /\ cbfs_q = CBFS_push(CBFS(total_depth(examples)), initial_pq_item,
                          indices_to_depth(examples, 0, 0))
    /\ pushed_regexps = [depth \in 0..(total_depth(examples) - 1) |-> {}]
    /\ map_regexp_value = <<>>
    /\ final_results = <<>>
    /\ ast_counter = 1
    /\ frame = [branch |-> "start", pq_item |-> initial_pq_item, w |-> <<>>,
                i |-> 0, j |-> 0, active_leaf |-> RegexpAst.root,
                sigma |-> "", k |-> 0, prefix_word |-> <<>>, changed |-> {}]
    /\ pc = "loop"

\* A run with the default stop_condition.
InitRun == InitRunOn(ExampleLists) /\ stop = "first"

\* The loop goes on: the queue is not empty and stop_condition is false.
Iterating ==
    /\ pc = "loop"
    /\ ~CBFS_is_empty(cbfs_q)
    /\ ~stop_condition_of(stop, final_results)

\* The head of an iteration: the pop, and the step to the next example.
popped == CBFS_pop(cbfs_q)

popped_ast == store[popped.result.ast]

popped_w == examples[popped.result.i + 1]

at_end == popped.result.k = Len(popped_w)

next_i == IF at_end THEN popped.result.i + 1 ELSE popped.result.i

next_j == IF at_end THEN 0 ELSE popped.result.k

next_active_leaf == IF at_end THEN popped_ast.root ELSE popped.result.active_leaf

\* A variant of is_bad that discards nothing.
is_bad_never == FALSE

\* if any(not ast.recognizes(example) for example in examples[:i])
is_bad == at_end /\ \E n \in 1..next_i : ~recognizes(popped_ast, examples[n])

\* if i == len(examples) or all(ast.recognizes(example) for example in examples)
is_final ==
    \/ next_i = Len(examples)
    \/ \A n \in DOMAIN examples : recognizes(popped_ast, examples[n])

\* visitor.visit_pop_item(pq_item)
pop_notified == visit_pop_item(visitor, popped.result)

head_frame ==
    [frame EXCEPT !.pq_item = popped.result, !.w = popped_w, !.i = next_i,
                  !.j = next_j, !.active_leaf = next_active_leaf,
                  !.changed = {}]

\* The loop ends and the function returns final_results.
Return ==
    /\ pc = "loop"
    /\ CBFS_is_empty(cbfs_q) \/ stop_condition_of(stop, final_results)
    /\ pc' = "done"
    /\ UNCHANGED <<examples, size_factor, arc_order, stop, store, num_objects,
                   cbfs_q, pushed_regexps, map_regexp_value, final_results,
                   ast_counter, frame, visitor, ast_vars, cbfs_vars,
                   obj_vars>>

\* An iteration in which visit_pop_item raises: the function raises with
\* the item popped.
VisitorRaises ==
    /\ Iterating
    /\ pop_notified.raised
    /\ cbfs_q' = popped.q
    /\ frame' = [frame EXCEPT !.branch = "raised",
                              !.pq_item = popped.result,
                              !.w = popped_w,
                              !.i = popped.result.i,
                              !.j = popped.result.k,
                              !.active_leaf = popped.result.active_leaf,
                              !.changed = {}]
    /\ pc' = "error"
    /\ UNCHANGED <<examples, size_factor, arc_order, stop, store, num_objects,
                   pushed_regexps, map_regexp_value, final_results,
                   ast_counter, visitor, ast_vars, cbfs_vars, obj_vars>>

\* An iteration that discards the popped item: 'bad' ast.
Discard ==
    /\ Iterating
    /\ ~pop_notified.raised
    /\ is_bad
    /\ cbfs_q' = popped.q
    /\ visitor' = pop_notified.visitor
    /\ frame' = [head_frame EXCEPT !.branch = "bad"]
    /\ UNCHANGED <<examples, size_factor, arc_order, stop, store, num_objects,
                   pushed_regexps, map_regexp_value, final_results,
                   ast_counter, pc, ast_vars, cbfs_vars, obj_vars>>

\* An iteration that records the popped item as a final solution.
Record ==
    /\ Iterating
    /\ ~pop_notified.raised
    /\ ~is_bad
    /\ is_final
    /\ cbfs_q' = popped.q
    /\ \E notified \in {visit_final_solution(pop_notified.visitor,
                                               popped.result.value,
                                               popped.result.ast)} :
          /\ visitor' = notified.visitor
          /\ pc' = IF notified.raised THEN "error" ELSE pc
    /\ final_results' = Append(final_results,
                               [value |-> popped.result.value,
                                ast |-> popped.result.ast])
    /\ frame' = [head_frame EXCEPT !.branch = "final"]
    /\ UNCHANGED <<examples, size_factor, arc_order, stop, store, num_objects,
                   pushed_regexps, map_regexp_value, ast_counter,
                   ast_vars, cbfs_vars, obj_vars>>

\* An iteration that expands the popped item: every mutator on every
\* epsilon-reachable arc, every mutant simplified and pushed.
Expand ==
    /\ Iterating
    /\ ~pop_notified.raised
    /\ ~is_bad
    /\ ~is_final
    /\ LET epsilon_reachable_arcs ==
               epsilon_reachables(popped_ast, next_active_leaf,
                                  popped_ast.map_node_parent[next_active_leaf])
           symbol == next_symbols(examples[next_i + 1], next_j, popped_w)[1]
           prefix_word == Slice(popped_w, 0, symbol.k)
           env == [popped_obj |-> popped.result.ast,
                   examples |-> examples,
                   size_factor |-> size_factor,
                   i |-> next_i,
                   k |-> symbol.k,
                   epsilon_reachable_arcs |-> epsilon_reachable_arcs,
                   ctx |-> [c |-> symbol.sigma,
                            prefix_word |-> prefix_word,
                            previous_words |-> SubSeq(examples, 1, next_i),
                            current_pa |-> examples[next_i + 1],
                            mutators_to_bounce_on |-> MUTATORS,
                            arc_order |-> arc_order]]
           expanded ==
                 expand_arcs([store |-> store,
                              num_objects |-> num_objects,
                              fresh |-> <<>>,
                              changed |-> {},
                              visitor |-> pop_notified.visitor,
                              cbfs_q |-> popped.q,
                              pushed_regexps |-> pushed_regexps,
                              map_regexp_value |-> map_regexp_value,
                              ast_counter |-> ast_counter,
                              raised |-> FALSE],
                             IterationOrder(epsilon_reachable_arcs, arc_order),
                             env)
       IN \E st \in {expanded} :
          /\ store' = st.store
          /\ num_objects' = st.num_objects
          /\ cbfs_q' = st.cbfs_q
          /\ pushed_regexps' = st.pushed_regexps
          /\ map_regexp_value' = st.map_regexp_value
          /\ ast_counter' = st.ast_counter
          /\ visitor' = st.visitor
          /\ pc' = IF st.raised THEN "error" ELSE pc
          /\ frame' = [head_frame EXCEPT !.branch = "expand",
                                         !.changed = st.changed,
                                         !.sigma = symbol.sigma,
                                         !.k = symbol.k,
                                         !.prefix_word = prefix_word]
    /\ UNCHANGED <<examples, size_factor, arc_order, stop, final_results,
                   ast_vars, cbfs_vars, obj_vars>>

(***************************************************************************)
(* State of a client of RegexpAst                                          *)
(*                                                                         *)
(* tree is one RegexpAst object.  The client builds it node by node in     *)
(* prefix order (add_node, then set_child or append_child), calls          *)
(* simplify(), and from a simplified tree either calls a mutator and then  *)
(* simplify() on the mutant, or the round trip to_prefix_regexp_list /     *)
(* prefix_regexp_to_ast.  phase is the last call made ("build",            *)
(* "simplified", "mutant", "simplified_mutant", "parsed"), before the      *)
(* value of tree before that call, and parsed the result of the round trip.*)
(***************************************************************************)
MaxBuildNodes == 4

MaxMutateNodes == 5

Operators == {"+", "*", "?", ".", "|"}

\* The nodes from the root down the last children.
RECURSIVE spine(_, _)
spine(ast, u) ==
    IF children(ast, u) = <<>> \/ Last(children(ast, u)) = None THEN <<u>>
    ELSE <<u>> \o spine(ast, Last(children(ast, u)))

\* The last node added is an operator that has no child yet.
is_pending(ast) ==
    LET u == ast.nodes_id - 1
    IN u # ast.root /\ ~is_leaf(ast, u) /\ children(ast, u) = <<>>

is_empty_ast(ast) == first_child(ast, ast.root) = None

\* Every operator has a child.
is_complete(ast) == ~is_empty_ast(ast) /\ ~is_pending(ast)

leaves(ast) == {u \in DOMAIN ast.map_node_label : is_leaf(ast, u)}

no_run ==
    /\ examples = <<>>
    /\ size_factor = 0
    /\ arc_order = "ascending"
    /\ store = <<>>
    /\ num_objects = 0
    /\ cbfs_q = CBFS(1)
    /\ pushed_regexps = <<>>
    /\ map_regexp_value = <<>>
    /\ final_results = <<>>
    /\ ast_counter = 0
    /\ frame = <<>>
    /\ pc = "off"
    /\ visitor = FindAstFromStringsDefaultVisitor
    /\ stop = "first"

no_client ==
    /\ tree = RegexpAst
    /\ phase = "off"
    /\ before = RegexpAst
    /\ parsed = [raised |-> FALSE, ast |-> RegexpAst]

no_cbfs ==
    /\ cbfs = CBFS(1)
    /\ cbfs_log = [op |-> "off", before |-> CBFS(1), result |-> <<>>,
                   raised |-> FALSE, pushes |-> 0, history |-> <<>>]

no_obj ==
    /\ fast_args = <<>>
    /\ f_obj = <<>>
    /\ evaluation = <<>>

InitAst ==
    /\ no_run
    /\ no_obj
    /\ tree = RegexpAst
    /\ phase = "build"
    /\ before = RegexpAst
    /\ parsed = [raised |-> FALSE, ast |-> RegexpAst]
    /\ no_cbfs

\* v = add_node(lab), then set_child(u, v) or append_child(u, v): the next
\* node of the tree in prefix order.
AddNode ==
    /\ phase = "build"
    /\ \E lab \in Alphabet \cup Operators :
       \E u \in Range(spine(tree, tree.root)) :
          /\ tree.num_nodes - 1 + (IF lab \in Operators THEN 1 ELSE 0) < MaxBuildNodes
          /\ is_pending(tree) => u = tree.nodes_id - 1
          /\ \/ is_n_ary(tree, u)
             \/ is_unary(tree, u) /\ children(tree, u) \in {<<>>, <<None>>}
          /\ LET v == tree.nodes_id
                 added == add_node(tree, lab)
             IN tree' = IF is_n_ary(tree, u) THEN append_child(added, u, v)
                        ELSE set_child(added, u, v)
    /\ before' = tree
    /\ UNCHANGED <<phase, parsed, run_vars, cbfs_vars, obj_vars>>

\* tree.simplify(), on a tree the client built or on a mutant.
Simplify ==
    /\ phase \in {"build", "mutant"}
    /\ phase = "build" => is_complete(tree)
    /\ tree' = simplify(tree)
    /\ before' = tree
    /\ phase' = IF phase = "build" THEN "simplified" ELSE "simplified_mutant"
    /\ UNCHANGED <<parsed, run_vars, cbfs_vars, obj_vars>>

\* One mutant of a mutator on an arc that is epsilon-reachable from a leaf (or
\* from the root) of a simplified tree, as the driver calls it.  The trees
\* mutated are those that simplify() left as the client built them.
Mutate ==
    /\ phase = "simplified"
    /\ tree = before
    /\ tree.num_nodes <= MaxMutateNodes
    /\ \E leaf \in leaves(tree) \cup {tree.root} :
       \E prefix_word \in WordsUpTo(MaxWordLen) :
       \E name \in Range(MUTATORS) :
          LET arcs == epsilon_reachables(tree, leaf, parent(tree, leaf))
              ctx == [c |-> Last(prefix_word),
                      prefix_word |-> prefix_word,
                      previous_words |-> <<>>,
                      current_pa |-> prefix_word,
                      mutators_to_bounce_on |-> MUTATORS,
                      arc_order |-> "ascending"]
          IN \E arc \in arcs :
                \E r \in Range(mutate(name, tree, ctx, arc[1], arc[2], arcs, <<>>)) :
                   tree' = r.ast
    /\ before' = tree
    /\ phase' = "mutant"
    /\ UNCHANGED <<parsed, run_vars, cbfs_vars, obj_vars>>

\* prefix_regexp_to_ast(tree.to_prefix_regexp_list())
RoundTrip ==
    /\ phase = "simplified"
    /\ parsed' = prefix_regexp_to_ast(to_prefix_regexp_list(tree))
    /\ phase' = "parsed"
    /\ UNCHANGED <<tree, before, run_vars, cbfs_vars, obj_vars>>

(***************************************************************************)
(* State of a client of CBFS                                               *)
(*                                                                         *)
(* cbfs is one CBFS object, on which the client calls push and pop in any  *)
(* order.  The items are pairs (value, counter) with a counter of their    *)
(* own each, as the tuples of the driver.  cbfs_log holds the last call    *)
(* (op), the CBFS before it (before), the item it returned (result),       *)
(* whether it raised (raised), the number of pushes so far (pushes) and,   *)
(* for each of the last num_queues pops of an unbroken series of pops      *)
(* that returned, the heaps that were not empty before it and the heap it  *)
(* took its item from (history).                                           *)
(***************************************************************************)
MaxQueues == 3

MaxPushes == 4

non_empty_heaps(q) == {d \in DOMAIN q.queues : q.queues[d] # {}}

InitCbfs ==
    /\ no_run
    /\ no_client
    /\ no_obj
    /\ \E num_queues \in 1..MaxQueues :
       \E pop_idx \in 0..(num_queues - 1) :
          /\ cbfs = CBFS_init(num_queues, pop_idx)
          /\ cbfs_log = [op |-> "init", before |-> CBFS_init(num_queues, pop_idx),
                         result |-> <<>>, raised |-> FALSE, pushes |-> 0,
                         history |-> <<>>]

\* cbfs.push(item, push_idx)
Push ==
    /\ cbfs_log.op # "off"
    /\ cbfs_log.pushes < MaxPushes
    /\ \E value \in {0, 1} :
       \E push_idx \in 0..(cbfs.num_queues - 1) :
          cbfs' = CBFS_push(cbfs,
                            [value |-> value, counter |-> cbfs_log.pushes],
                            push_idx)
    /\ cbfs_log' = [cbfs_log EXCEPT !.op = "push", !.before = cbfs,
                                    !.result = <<>>, !.raised = FALSE,
                                    !.pushes = @ + 1]
    /\ UNCHANGED <<run_vars, ast_vars, obj_vars>>

\* cbfs.pop(), which returns an item or raises.
Pop ==
    /\ cbfs_log.op # "off"
    /\ \E call \in {CBFS_pop(cbfs)} :
          /\ cbfs' = call.q
          /\ cbfs_log' =
                [cbfs_log EXCEPT
                    !.op = "pop", !.before = cbfs, !.result = call.result,
                    !.raised = call.raised,
                    !.history =
                        IF call.raised THEN <<>>
                        ELSE LET all == Append(@, [non_empty |-> non_empty_heaps(cbfs),
                                                   heap |-> call.q.pop_idx,
                                                   pushes |-> cbfs_log.pushes])
                             IN IF Len(all) > cbfs.num_queues THEN Tail(all) ELSE all]
    /\ UNCHANGED <<run_vars, ast_vars, obj_vars>>

(***************************************************************************)
(* fast(): the objective function                                          *)
(*                                                                         *)
(* fast(examples, obj_id, **kwargs) makes the objective function f_obj and *)
(* passes it to fast_from_strings, which evaluates it on the mutants.  The *)
(* factors and the values are rationals <<numerator, denominator>>; the    *)
(* density of an AST, which ast_density computes from a DFA of the AST, is *)
(* an input of the evaluation.                                             *)
(***************************************************************************)
Rat(n, d) == <<n, d>>

RatAdd(x, y) == <<x[1] * y[2] + y[1] * x[2], x[2] * y[2]>>

RatMul(x, y) == <<x[1] * y[1], x[2] * y[2]>>

RatEq(x, y) == x[1] * y[2] = y[1] * x[2]

OBJ_ADD == 0

OBJ_ADD_NORM == 2

\* max(len(example) for example in examples)
max_len(exs) ==
    CHOOSE n \in {Len(exs[e]) : e \in DOMAIN exs} :
        \A e \in DOMAIN exs : Len(exs[e]) <= n

shortness_factor(exs) == Rat(1, 2 * max_len(exs))

\* The default of the parameters size_factor and density_factor: 0.5.
default_factor == Rat(1, 2)

factor_of(kwargs, name) ==
    IF name \in DOMAIN kwargs THEN kwargs[name] ELSE default_factor

make_additive_objective_func_for_str(exs, kwargs) ==
    [size_factor |-> factor_of(kwargs, "size_factor"),
     density_factor |-> factor_of(kwargs, "density_factor"),
     size_scale |-> 1]

make_normalized_additive_objective_func_for_str(exs, kwargs) ==
    [size_factor |-> factor_of(kwargs, "size_factor"),
     density_factor |-> factor_of(kwargs, "density_factor"),
     size_scale |-> sum_len(exs) + Len(exs) + 1]

\* return size_factor * size + density_factor * density, with size divided
\* by total_examples_size in the normalized function.
objective_value(obj, size, density) ==
    RatAdd(RatMul(obj.size_factor, Rat(size, obj.size_scale)),
           RatMul(obj.density_factor, density))

\* fast(), up to the call of fast_from_strings.
fast_kwargs(exs, obj_id, kwargs) ==
    IF obj_id = OBJ_ADD /\ "size_factor" \notin DOMAIN kwargs
    THEN Put(kwargs, "size_factor", shortness_factor(exs))
    ELSE kwargs

make_obj(exs, obj_id, kwargs) ==
    IF obj_id = OBJ_ADD
    THEN make_additive_objective_func_for_str(exs, kwargs)
    ELSE make_normalized_additive_objective_func_for_str(exs, kwargs)

MaxSize == 4

FactorDen == 1

DensityDen == 2

Factors == {Rat(n, FactorDen) : n \in 0..FactorDen}

Densities == {Rat(n, DensityDen) : n \in 0..DensityDen}

Kwargs ==
    UNION {[names -> Factors] : names \in SUBSET {"size_factor", "density_factor"}}

InitObj ==
    /\ no_run
    /\ no_client
    /\ no_cbfs
    /\ fast_args \in [examples : ExampleLists,
                      obj_id : {OBJ_ADD, OBJ_ADD_NORM},
                      kwargs : Kwargs]
    /\ f_obj = <<>>
    /\ evaluation = <<>>

\* f_obj = make_obj(examples=examples, alphabet=alphabet, *cls, **kwargs)
MakeObjective ==
    /\ fast_args # <<>>
    /\ f_obj = <<>>
    /\ f_obj' = make_obj(fast_args.examples, fast_args.obj_id,
                         fast_kwargs(fast_args.examples, fast_args.obj_id,
                                     fast_args.kwargs))
    /\ UNCHANGED <<fast_args, evaluation, run_vars, ast_vars, cbfs_vars>>

\* f_obj(ast, examples), for an AST of some size and density.
Evaluate ==
    /\ f_obj # <<>>
    /\ \E size \in 1..MaxSize :
       \E density \in Densities :
          evaluation' = [size |-> size, density |-> density,
                         value |-> objective_value(f_obj, size, density)]
    /\ UNCHANGED <<fast_args, f_obj, run_vars, ast_vars, cbfs_vars>>

(***************************************************************************)
(* Specifications                                                          *)
(***************************************************************************)
Init == InitRun /\ no_client /\ no_cbfs /\ no_obj

Next ==
    \/ Return
    \/ VisitorRaises
    \/ Discard
    \/ Record
    \/ Expand

\* A run of fast_from_strings.
Spec == Init /\ [][Next]_vars

\* A longer list of examples, and the runs on it or on a list of ExampleLists.
LongExampleLists == {<< <<"a">>, <<"a">>, <<"b", "a">> >>}

InitLong ==
    /\ InitRunOn(ExampleLists \cup LongExampleLists)
    /\ stop = "first"
    /\ no_client
    /\ no_cbfs
    /\ no_obj

SpecLong == InitLong /\ [][Next]_vars

\* The runs with a stop_condition that never returns true.
InitDrain ==
    /\ InitRunOn(ExampleLists)
    /\ stop = "never"
    /\ no_client
    /\ no_cbfs
    /\ no_obj

SpecDrain == InitDrain /\ [][Next]_vars

NextAst == AddNode \/ Simplify \/ Mutate \/ RoundTrip

\* A client of RegexpAst.
SpecAst == InitAst /\ [][NextAst]_vars

NextCbfs == Push \/ Pop

\* A client of CBFS.
SpecCbfs == InitCbfs /\ [][NextCbfs]_vars

NextObj == MakeObjective \/ Evaluate

\* A caller of fast() and of the objective function it makes.
SpecObj == InitObj /\ [][NextObj]_vars


(***************************************************************************)
(* Properties of a run of fast_from_strings                                *)
(***************************************************************************)
recognizes_all(ast) == \A n \in DOMAIN examples : recognizes(ast, examples[n])

\* C1: every pair (objective, ast) appended to the results list satisfies
\* ast.recognizes(e) for every input example e, whichever branch recorded it.
C1_RecordedResultsRecognizeExamples ==
    \A n \in DOMAIN final_results : recognizes_all(store[final_results[n].ast])

\* A result recorded by the early test, before the last example was reached.
C1_RecordedBeforeLastExample ==
    /\ frame.branch = "final"
    /\ final_results # <<>>
    /\ frame.i < Len(examples)
    /\ Len(examples) = 2

\* C2: a run with the default stop condition records a solution: once the
\* function has returned, the list holds a pair whose ast accepts every
\* example.
C2_RunRecordsSolution ==
    pc = "done" =>
        \E n \in DOMAIN final_results : recognizes_all(store[final_results[n].ast])

\* C3: the symbol handed to the mutators at indices (i, k) is examples[i][k],
\* the prefix is examples[i][:k+1] and the children are pushed with position
\* k + 1, also in the iteration that has just advanced to example i.
C3_NextSymbolOfCurrentExample ==
    frame.branch = "expand" =>
        /\ frame.sigma = examples[frame.i + 1][frame.j + 1]
        /\ frame.prefix_word = Slice(examples[frame.i + 1], 0, frame.j + 1)
        /\ frame.k = frame.j + 1

\* C4: the item the next iteration pops satisfies
\* ast.recognizes_prefix(examples[i][:k], active_leaf).
C4_PoppedItemRecognizesPrefix ==
    Iterating =>
        recognizes_prefix(popped_ast,
                          Slice(popped_w, 0, popped.result.k),
                          popped.result.active_leaf)

(***************************************************************************)
(* The language of a regular expression, for words of bounded length       *)
(***************************************************************************)
MaxCheckedLen == 3

CheckedWords == UNION {[1..m -> Alphabet] : m \in 0..MaxCheckedLen}

Concat(A, B) == {w \in {a \o b : a \in A, b \in B} : Len(w) <= MaxCheckedLen}

\* L \cup LL \cup LLL ..., from acc
RECURSIVE LanguagePlus(_, _)
LanguagePlus(L, acc) ==
    LET more == acc \cup Concat(acc, L)
    IN IF more = acc THEN acc ELSE LanguagePlus(L, more)

RECURSIVE Language(_, _)
RECURSIVE LanguageConcat(_, _, _)
LanguageConcat(ast, vs, i) ==
    IF i > Len(vs) THEN {<<>>}
    ELSE Concat(Language(ast, vs[i]), LanguageConcat(ast, vs, i + 1))

\* The words of at most MaxCheckedLen symbols in the language of the
\* subexpression at u.
Language(ast, u) ==
    LET lab == ast.map_node_label[u]
        vs == ast.map_node_children[u]
    IN CASE lab = ROOT -> Language(ast, vs[1])
         [] lab = "." -> LanguageConcat(ast, vs, 1)
         [] lab = "|" -> UNION {Language(ast, vs[i]) : i \in DOMAIN vs}
         [] lab = "?" -> Language(ast, vs[1]) \cup {<<>>}
         [] lab = "+" -> LanguagePlus(Language(ast, vs[1]), Language(ast, vs[1]))
         [] lab = "*" -> LanguagePlus(Language(ast, vs[1]), Language(ast, vs[1]))
                         \cup {<<>>}
         [] OTHER -> {<<lab>>}

\* tree is an expression: every operator has its children.
is_expression ==
    \/ phase = "build" /\ is_complete(tree)
    \/ phase = "simplified"

\* C5: recognizes_word(w) is true exactly when w belongs to the language of
\* the regular expression the AST denotes; the empty word is accepted iff the
\* expression is nullable.
C5_RecognizesWordIsLanguageMembership ==
    is_expression =>
        \A w \in CheckedWords :
            recognizes_word(tree, w) <=> w \in Language(tree, tree.root)

\* A nullable expression with a loop over a concatenation, which accepts ab
\* and rejects b.
C5_NullableLoopOverConcatenation ==
    /\ is_expression
    /\ \E u \in DOMAIN tree.map_node_label : tree.map_node_label[u] = "."
    /\ recognizes_word(tree, <<>>)
    /\ recognizes_word(tree, <<"a", "b">>)
    /\ ~recognizes_word(tree, <<"b">>)

(***************************************************************************)
(* The single-step table of epsilon-reachability and its least closed set  *)
(***************************************************************************)
\* The steps from the arc (u, v).  The arc (root, None) is the initial arc
\* of the root; its only step is (root, first_child(root)).
TableStep(ast, u, v) ==
    IF v = None THEN {<<u, ast.map_node_children[u][1]>>}
    ELSE LET lab == ast.map_node_label[v]
             vs == ast.map_node_children[v]
             up == ast.map_node_parent[v]
             down == ast.map_node_parent[v] = u
         IN CASE down /\ lab = "+" -> {<<v, vs[1]>>}
              [] down /\ lab \in {"*", "?"} -> {<<v, u>>, <<v, vs[1]>>}
              [] down /\ lab = "." -> {<<v, vs[1]>>}
              [] down /\ lab = "|" -> {<<v, vs[i]>> : i \in DOMAIN vs}
              [] ~down /\ lab \in {"+", "*"} -> {<<v, u>>, <<v, up>>}
              [] ~down /\ lab = "?" -> {<<v, up>>}
              [] ~down /\ lab = "." ->
                     IF vs[Len(vs)] = u THEN {<<v, up>>}
                     ELSE {<<v, vs[i + 1]>> : i \in {j \in DOMAIN vs : vs[j] = u}}
              [] ~down /\ lab = "|" -> {<<v, up>>}
              [] OTHER -> {}

\* The least set of arcs that contains S and is closed under TableStep.
RECURSIVE LeastClosed(_, _)
LeastClosed(ast, S) ==
    LET more == S \cup UNION {TableStep(ast, a[1], a[2]) : a \in S}
    IN IF more = S THEN S ELSE LeastClosed(ast, more)

\* The arcs of ast, downwards and upwards, and the initial arc of the root.
Arcs(ast) ==
    LET downwards == {<<ast.map_node_parent[v], v>> :
                         v \in {x \in DOMAIN ast.map_node_parent :
                                   ast.map_node_parent[x] # None}}
    IN downwards \cup {<<a[2], a[1]>> : a \in downwards} \cup {<<ast.root, None>>}

\* C6: epsilon_reachables(u, v) returns exactly the least set of arcs that
\* contains (u, v) and is closed under the single-step table, on every AST,
\* including those with + / * loops.
C6_EpsilonReachablesIsLeastClosedSet ==
    is_expression =>
        \A a \in Arcs(tree) :
            epsilon_reachables(tree, a[1], a[2]) = LeastClosed(tree, {a})

\* A loop is followed: from the arc that leaves the child of a + or * node
\* upwards, the arc back down to that child is reached, and so is an arc of
\* the parent of the loop.
C6_LoopFollowed ==
    /\ is_expression
    /\ \E u \in DOMAIN tree.map_node_label :
          /\ tree.map_node_label[u] \in {"+", "*"}
          /\ LET child == tree.map_node_children[u][1]
                 reached == epsilon_reachables(tree, child, u)
             IN /\ <<u, child>> \in reached
                /\ <<u, tree.map_node_parent[u]>> \in reached
                /\ Cardinality(reached) >= 4

(***************************************************************************)
(* Properties of simplify() and of the round trip                          *)
(***************************************************************************)
is_simplified == phase \in {"simplified", "simplified_mutant"}

\* unary nodes other than the root
is_operator_unary(ast, u) == ast.map_node_label[u] \in {"+", "*", "?"}

\* C7: simplify() is idempotent, also on the mutants of a simplified AST: a
\* second call changes neither the tree nor its prefix linearization.
C7_SimplifyIdempotent ==
    is_simplified =>
        /\ simplify(tree) = tree
        /\ to_prefix_regexp_list(simplify(tree)) = to_prefix_regexp_list(tree)

\* C8: after simplify(), no node labeled +, * or ? has a child labeled +, *
\* or ?, in every simplified mutant that a mutator produces from a simplified
\* AST.
C8_NoUnaryChildOfUnary ==
    phase = "simplified_mutant" =>
        \A u \in DOMAIN tree.map_node_label :
            is_operator_unary(tree, u) =>
                ~is_operator_unary(tree, tree.map_node_children[u][1])

\* C9: after simplify(), the children of every | node are in non-decreasing
\* order of the prefix string of their subtrees in the final tree.
C9_OrChildrenSorted ==
    is_simplified =>
        \A u \in DOMAIN tree.map_node_label :
            tree.map_node_label[u] = "|" =>
                \A i, j \in DOMAIN tree.map_node_children[u] :
                    i < j =>
                        ~StrLess(to_prefix_regexp_str_at(tree, tree.map_node_children[u][j]),
                                 to_prefix_regexp_str_at(tree, tree.map_node_children[u][i]))

\* C10: for a simplified AST a, prefix_regexp_to_ast(a.to_prefix_regexp_list())
\* returns an AST with the structure and the prefix linearization of a.
C10_RoundTrip ==
    phase = "parsed" =>
        /\ ~parsed.raised
        /\ to_prefix_regexp_list(parsed.ast) = to_prefix_regexp_list(tree)
        /\ to_prefix_regexp_str(parsed.ast) = to_prefix_regexp_str(tree)

(***************************************************************************)
(* Properties of CBFS                                                      *)
(***************************************************************************)
popped_from_cbfs == cbfs_log.op = "pop" /\ ~cbfs_log.raised

\* The first heap at or after position p, in cyclic order, that is not empty.
first_non_empty_from(q, p) ==
    LET D == q.num_queues
        k == CHOOSE n \in 0..(D - 1) :
                 /\ q.queues[(p + n) % D] # {}
                 /\ \A m \in 0..(n - 1) : q.queues[(p + m) % D] = {}
    IN (p + k) % D

\* C11: pop on a CBFS that holds an item advances pop_idx when the quota is
\* used up, then past every empty heap, returns the minimum of the heap it
\* stops at, adds one to num_popped (reset to 0 by an advance), takes one
\* from num_items and leaves the other heaps unchanged.
C11_PopCyclesToNextNonEmptyHeap ==
    popped_from_cbfs =>
        LET b == cbfs_log.before
            quota_used == b.num_popped = b.num_to_pop
            start == IF quota_used THEN (b.pop_idx + 1) % b.num_queues
                     ELSE b.pop_idx
            at == first_non_empty_from(b, start)
            advanced == quota_used \/ at # b.pop_idx
        IN /\ cbfs.pop_idx = at
           /\ cbfs_log.result \in b.queues[at]
           /\ \A y \in b.queues[at] \ {cbfs_log.result} :
                 \/ cbfs_log.result.value < y.value
                 \/ /\ cbfs_log.result.value = y.value
                    /\ cbfs_log.result.counter < y.counter
           /\ cbfs.queues[at] = b.queues[at] \ {cbfs_log.result}
           /\ \A d \in DOMAIN b.queues : d # at => cbfs.queues[d] = b.queues[d]
           /\ cbfs.num_popped = (IF advanced THEN 0 ELSE b.num_popped) + 1
           /\ cbfs.num_items = b.num_items - 1
           /\ cbfs.num_queues = b.num_queues
           /\ cbfs.num_to_pop = b.num_to_pop

\* A pop that used up the quota of its heap, skipped the next heap, which was
\* empty, and took the lesser of two items.
C11_PopSkippedEmptyHeap ==
    /\ popped_from_cbfs
    /\ cbfs_log.before.num_queues = 3
    /\ cbfs_log.before.num_popped = cbfs_log.before.num_to_pop
    /\ cbfs_log.before.queues[(cbfs_log.before.pop_idx + 1) % 3] = {}
    /\ cbfs.pop_idx = (cbfs_log.before.pop_idx + 2) % 3
    /\ Cardinality(cbfs_log.before.queues[cbfs.pop_idx]) = 2

\* C12: after num_queues consecutive pops that returned, every heap that
\* was not empty before the first of them has been popped from, whether or
\* not pushes happened between the pops.
C12_EveryNonEmptyHeapVisitedInOneCycle ==
    Len(cbfs_log.history) = cbfs.num_queues =>
        cbfs_log.history[1].non_empty \subseteq
            {cbfs_log.history[n].heap : n \in DOMAIN cbfs_log.history}

\* Three consecutive pops on three heaps that all held an item, with a push
\* between the first and the last of them.
C12_CycleOverThreeHeapsWithPush ==
    /\ cbfs.num_queues = 3
    /\ Len(cbfs_log.history) = 3
    /\ cbfs_log.history[1].non_empty = {0, 1, 2}
    /\ cbfs_log.history[1].pushes < cbfs_log.history[3].pushes
    /\ cbfs_log.op = "pop"

RECURSIVE stored_items(_, _)
\* The number of items in the heaps d, d + 1, ...
stored_items(q, d) ==
    IF d >= q.num_queues THEN 0
    ELSE Cardinality(q.queues[d]) + stored_items(q, d + 1)

\* C13: num_items is the number of items stored in the heaps and is never
\* negative, so is_empty() is true exactly when every heap is empty, and a
\* pop that passes the test of num_items finds a heap that is not empty.
C13_NumItemsCountsStoredItems ==
    /\ cbfs.num_items = stored_items(cbfs, 0)
    /\ cbfs.num_items >= 0
    /\ CBFS_is_empty(cbfs) <=> non_empty_heaps(cbfs) = {}
    /\ cbfs.num_items # 0 => non_empty_heaps(cbfs) # {}

\* A CBFS emptied by its pops after three pushes.
C13_EmptiedByPops ==
    /\ popped_from_cbfs
    /\ cbfs_log.pushes = 3
    /\ cbfs_log.before.num_items = 1
    /\ CBFS_is_empty(cbfs)

\* C14: pop on a CBFS that holds no item raises and leaves pop_idx,
\* num_popped, num_items and every heap unchanged.
C14_PopOnEmptyRaises ==
    cbfs_log.op = "pop" /\ non_empty_heaps(cbfs_log.before) = {} =>
        /\ cbfs_log.raised
        /\ cbfs = cbfs_log.before

\* A pop that raised on a CBFS emptied by earlier pops.
C14_PopRaisedAfterUse ==
    /\ cbfs_log.op = "pop"
    /\ cbfs_log.raised
    /\ cbfs_log.pushes >= 2
    /\ cbfs.num_popped = 1
    /\ cbfs.pop_idx # 0

\* C15: no step of the driver changes the structure of an AST that an item
\* still in a heap holds, or of the AST being expanded: no simplify() of an
\* iteration changes such an object.
C15_HeldAstsUnchanged == frame.changed = {}

\* C16: every push of an iteration comes with a fingerprint that its layer
\* had not recorded, so no two items pushed into a layer share a fingerprint;
\* a mutant whose fingerprint is recorded is neither scored nor pushed; and
\* the fingerprint sets of the layers only grow.
pushed_items(d) == cbfs_q'.queues[d] \ cbfs_q.queues[d]

recorded_keys(d) == pushed_regexps'[d] \ pushed_regexps[d]

C16_PushesHaveNewFingerprints ==
    [][\A d \in DOMAIN pushed_regexps :
           /\ pushed_regexps[d] \subseteq pushed_regexps'[d]
           /\ Cardinality(pushed_items(d)) = Cardinality(recorded_keys(d))
           /\ \A item \in pushed_items(d) :
                  \E ast_key \in recorded_keys(d) :
                      ast_key[2] = item.active_leaf
           /\ (DOMAIN map_regexp_value') \ DOMAIN map_regexp_value
                  \subseteq {ast_key[1] : ast_key \in
                                 UNION {recorded_keys(e) : e \in DOMAIN pushed_regexps}}]_vars

\* More mutant objects were made than items pushed: a mutant was skipped.
C16_MutantSkipped == pc = "done" /\ num_objects > ast_counter

\* C17: the stop condition is evaluated at the head of each iteration, before
\* the pop.  With the default condition, from a state of the loop where the
\* results hold a solution the only step is the return: nothing is popped,
\* pushed or recorded any more, and the results never hold more than one
\* solution.
C17_StopsAtFirstSolution ==
    [][/\ Len(final_results') <= 1
       /\ pc = "loop" /\ Len(final_results) >= 1 =>
              /\ pc' = "done"
              /\ UNCHANGED <<cbfs_q, final_results, pushed_regexps, store,
                             ast_counter>>]_vars

\* The run has returned one solution and left items in the heaps.
C17_ReturnedWithItemsLeft ==
    /\ pc = "done"
    /\ Len(final_results) = 1
    /\ ~CBFS_is_empty(cbfs_q)
    /\ frame.branch = "final"

\* The condition of each mutator on (ast, u, v, c), with the arcs that are
\* epsilon-reachable from the active leaf.
is_downward(ast, u, v) == v # None /\ v \in Range(children(ast, u))

is_upward(ast, u, v) == v # None /\ u \in Range(children(ast, v))

precondition(name, ast, u, v, c, arcs) ==
    CASE name = "BotMutator" -> is_empty_ast(ast)
      [] name = "ActivateMutator" ->
             v # None /\ children(ast, v) = <<>> /\ ast.map_node_label[v] = c
      [] name \in {"DisjunctionMutator", "DownDotMutator"} ->
             is_downward(ast, u, v)
      [] name = "UpDotMutator" -> is_upward(ast, u, v)
      [] name = "BouncePlusMutator" ->
             is_upward(ast, u, v) /\ <<v, u>> \notin arcs
      [] name = "BounceQuestionMutator" ->
             is_downward(ast, u, v) /\ <<v, u>> \notin arcs

mutator_context(c) ==
    [c |-> c, prefix_word |-> <<c>>, previous_words |-> <<>>,
     current_pa |-> <<c>>, mutators_to_bounce_on |-> MUTATORS,
     arc_order |-> "ascending"]

active_leaves(ast) == leaves(ast) \cup {ast.root}

arcs_from(ast, leaf) == epsilon_reachables(ast, leaf, parent(ast, leaf))

\* C18: on a simplified AST, for every arc (u, v) that is epsilon-reachable
\* from a leaf or from the root, the arc (root, None) included, and every
\* symbol, a mutator whose condition does not hold returns the empty list.
C18_MutatorReturnsEmptyOffCondition ==
    phase = "simplified" /\ tree.num_nodes <= MaxMutateNodes =>
        \A leaf \in active_leaves(tree) :
        \A arc \in arcs_from(tree, leaf) :
        \A c \in Alphabet :
        \A name \in Range(MUTATORS) :
            ~precondition(name, tree, arc[1], arc[2], c, arcs_from(tree, leaf))
                => mutate(name, tree, mutator_context(c), arc[1], arc[2],
                          arcs_from(tree, leaf), <<>>) = <<>>

\* A simplified AST that is not empty, with the arc (root, None) reachable
\* from its root and an operator reachable as the target of an arc:
\* BotMutator and ActivateMutator are off their conditions.
C18_RootArcOnNonEmptyAst ==
    /\ phase = "simplified"
    /\ tree.num_nodes <= MaxMutateNodes
    /\ ~is_empty_ast(tree)
    /\ \E leaf \in active_leaves(tree) :
          /\ <<tree.root, None>> \in arcs_from(tree, leaf)
          /\ \E arc \in arcs_from(tree, leaf) :
                arc[2] # None /\ ~is_leaf(tree, arc[2])

\* C19: the additive objective function that fast() makes when the caller
\* gives no factor evaluates an AST to alpha * size + (1 - alpha) * density,
\* with alpha = 1 / (2 * the length of the longest example).
alpha == Rat(1, 2 * max_len(fast_args.examples))

one_minus_alpha == Rat(2 * max_len(fast_args.examples) - 1,
                       2 * max_len(fast_args.examples))

C19_DensityWeightIsOneMinusAlpha ==
    /\ evaluation # <<>>
    /\ fast_args.obj_id = OBJ_ADD
    /\ DOMAIN fast_args.kwargs = {}
    => RatEq(evaluation.value,
             RatAdd(RatMul(alpha, Rat(evaluation.size, 1)),
                    RatMul(one_minus_alpha, evaluation.density)))

\* C20: the driver calls visit_init_sample(examples) before the first
\* visit_pop_item: once an item has been popped, a verbose or metrics visitor
\* has the counter that its init hook sets up, and its visit_pop_item did not
\* raise.
C20_InitHookBeforeFirstPop ==
    frame.branch # "start" /\ visitor.class \in {"Verbose", "Evaluate"} =>
        /\ has_attrs(visitor, {"num_pops"})
        /\ frame.branch # "raised"

\* The calls of UpDotMutator.mutate examined on a tree: the current prefix,
\* whose last symbol is the symbol to add, and the examples already processed.
PreviousWordLists == {<<>>} \cup {<<w>> : w \in WordsUpTo(MaxWordLen)}

up_dot_context(prefix_word, previous_words) ==
    [c |-> Last(prefix_word), prefix_word |-> prefix_word,
     previous_words |-> previous_words, current_pa |-> prefix_word,
     mutators_to_bounce_on |-> MUTATORS, arc_order |-> "ascending"]

\* The ids that add_node gives to the next three nodes of a copy of ast.
inserted_dot(ast) == ast.nodes_id

inserted_leaf(ast) == ast.nodes_id + 1

inserted_question(ast) == ast.nodes_id + 2

replace_in(vs, u, x) == [n \in DOMAIN vs |-> IF vs[n] = u THEN x ELSE vs[n]]

\* new_ast is ast with a "." node at the position of u under v, whose first
\* child is u, with its subtree as it was, and whose second child is a new
\* leaf of label c.
has_dot_inserted(ast, new_ast, u, v, c) ==
    LET dot == inserted_dot(ast)
        leaf == inserted_leaf(ast)
    IN /\ DOMAIN new_ast.map_node_label = DOMAIN ast.map_node_label \cup {dot, leaf}
       /\ new_ast.num_nodes = ast.num_nodes + 2
       /\ label(new_ast, dot) = "."
       /\ label(new_ast, leaf) = c
       /\ children(new_ast, leaf) = <<>>
       /\ children(new_ast, dot) = <<u, leaf>>
       /\ parent(new_ast, leaf) = dot
       /\ parent(new_ast, u) = dot
       /\ parent(new_ast, dot) = v
       /\ children(new_ast, v) = replace_in(children(ast, v), u, dot)
       /\ \A n \in DOMAIN ast.map_node_label :
             /\ label(new_ast, n) = label(ast, n)
             /\ n # v => children(new_ast, n) = children(ast, n)
             /\ n # u => parent(new_ast, n) = parent(ast, n)

\* The new leaf of new_ast is the only child of a "?" node that is the second
\* child of the inserted "." node.
is_wrapped(ast, new_ast) ==
    LET dot == inserted_dot(ast)
        leaf == inserted_leaf(ast)
        question == inserted_question(ast)
    IN /\ question \in DOMAIN new_ast.map_node_label
       /\ label(new_ast, question) = "?"
       /\ children(new_ast, dot)[2] = question
       /\ parent(new_ast, question) = dot
       /\ children(new_ast, question) = <<leaf>>
       /\ parent(new_ast, leaf) = question

\* new_ast with the "?" node over the new leaf taken out again.
unwrapped(ast, new_ast) ==
    IF ~is_wrapped(ast, new_ast) THEN new_ast
    ELSE [remove_node(new_ast, inserted_question(ast)) EXCEPT
              !.map_node_children[inserted_dot(ast)][2] = inserted_leaf(ast),
              !.map_node_parent[inserted_leaf(ast)] = inserted_dot(ast)]

needs_no_question(plain, leaf, prefix_word, previous_words) ==
    /\ recognizes_prefix(plain, prefix_word, leaf)
    /\ \A n \in DOMAIN previous_words : recognizes(plain, previous_words[n])

makers(path) ==
    [n \in 1..(Len(path) \div 4) |-> MUTATORS[path[4 * n - 1] + 1]]

\* C23: a bouncing mutator, constructed as fast() and fast_from_strings()
\* construct it, calls only the five non-bouncing mutators on the newly
\* epsilon-reachable arcs of the ASTs it synthesizes: every mutant it returns
\* is the AST it synthesized, given back by ActivateMutator, or a copy of
\* that AST made by one non-bouncing mutator, and never comes from a bouncing
\* mutator called on that AST.
C23_BounceOnNonBouncingOnly ==
    phase = "simplified" /\ tree.num_nodes <= MaxMutateNodes =>
        \A leaf \in active_leaves(tree) :
        \A arc \in arcs_from(tree, leaf) :
        \A c \in Alphabet :
        \A name \in Range(BOUNCING_MUTATORS) :
        \A r \in Range(mutate(name, tree, mutator_context(c), arc[1], arc[2],
                              arcs_from(tree, leaf), <<>>)) :
            /\ Len(r.obj) \in {4, 8}
            /\ makers(r.obj)[1] = name
            /\ Len(r.obj) = 8 => makers(r.obj)[2] \in Range(NON_BOUCING_MUTATORS)

\* The items that the heaps of a CBFS hold.
heap_items(q) == UNION Range(q.queues)

\* The items that a step pushes and the items that it pops.
new_items == heap_items(cbfs_q') \ heap_items(cbfs_q)

taken_items == heap_items(cbfs_q) \ heap_items(cbfs_q')

\* C24: the counters of the items pushed during a run, the initial item
\* included, are pairwise distinct and increase in push order: every item in
\* a heap has a counter below ast_counter, and the items that an iteration
\* pushes get the counters from ast_counter on, one each.  Hence no two
\* items of a heap have the same (value, counter), and the item popped from
\* a heap has the least value of that heap and, among the items of that
\* value, the least counter: the earliest pushed.
C24_CountersOrderTheItems ==
    [][/\ \A x \in heap_items(cbfs_q) : x.counter < ast_counter
       /\ {x.counter : x \in new_items}
              = ast_counter..(ast_counter + Cardinality(new_items) - 1)
       /\ pc' # "error" => ast_counter' = ast_counter + Cardinality(new_items)
       /\ \A d \in DOMAIN cbfs_q'.queues :
          \A x, y \in cbfs_q'.queues[d] :
              x # y => <<x.value, x.counter>> # <<y.value, y.counter>>
       /\ \A d \in DOMAIN cbfs_q.queues :
          \A x \in cbfs_q.queues[d] \cap taken_items :
          \A y \in cbfs_q.queues[d] \ {x} :
              \/ x.value < y.value
              \/ x.value = y.value /\ x.counter < y.counter]_vars

\* The last iteration popped an item from a heap that still holds an item of
\* the same value, pushed later, and pushed two items or more into one heap.
C24_TieBrokenByCounter ==
    /\ pc = "loop"
    /\ frame.branch = "expand"
    /\ \E d \in DOMAIN cbfs_q.queues :
          /\ \E y \in cbfs_q.queues[d] :
                /\ y.value = frame.pq_item.value
                /\ y.counter > frame.pq_item.counter
                /\ y.counter < ast_counter - 2
                /\ indices_to_depth(examples, frame.pq_item.i, frame.pq_item.k) = d
          /\ \E x, y \in cbfs_q.queues[d + 1] :
                x.counter = ast_counter - 1 /\ y.counter = ast_counter - 2

\* The layer that holds the item x.
depth_of(x) == indices_to_depth(examples, x.i, x.k)

\* The item y is pushed as a child of the popped item x: with the next
\* progression of the example of x, or, when x ends its example, with the
\* first progression of the next example.
is_child_of(y, x) ==
    IF x.k = Len(examples[x.i + 1])
    THEN y.i = x.i + 1 /\ y.k = 1
    ELSE y.i = x.i /\ y.k = x.k + 1

\* C25: with a stop condition that never returns true, the loop of the
\* driver ends for every list of non-empty examples, and the function
\* returns the accumulated results.  Every iteration pops one item, and every
\* item it pushes goes into the layer of its own progression, one layer
\* deeper than the layer the popped item came from (an item that ends
\* example i is taken up again as (i + 1, 0), at the same depth, and its
\* children are at (i + 1, 1)).  So every iteration that stays in the loop
\* takes an item from some layer and leaves the layers above it as they
\* were: the numbers of items of the layers, read from layer 0 on, decrease
\* in the lexicographic order, which cannot go on for ever.  The loop is
\* left by the return of final_results from an empty CBFS, never by an
\* exception.
C25_DriverLoopTerminates ==
    [][/\ Cardinality(taken_items) <= 1
       /\ new_items # {} => taken_items # {}
       /\ \A d \in DOMAIN cbfs_q.queues :
          \A x \in cbfs_q.queues[d] \cap taken_items :
             /\ depth_of(x) = d
             /\ \A e \in DOMAIN cbfs_q'.queues :
                \A y \in cbfs_q'.queues[e] \cap new_items :
                   /\ is_child_of(y, x)
                   /\ depth_of(y) = e
                   /\ e = d + 1
       /\ pc' = "loop" =>
              \E d \in DOMAIN cbfs_q.queues :
                 /\ Cardinality(cbfs_q'.queues[d]) < Cardinality(cbfs_q.queues[d])
                 /\ \A e \in 0..(d - 1) : cbfs_q'.queues[e] = cbfs_q.queues[e]
       /\ pc' = "done" => CBFS_is_empty(cbfs_q') /\ final_results' = final_results
       /\ pc' # "error"]_vars

\* C26: every item in a heap, pushed with the example index i, holds an AST
\* that recognizes every example of index below i: no mutant, once
\* simplified, has lost an example that was already processed.  So an
\* iteration that discards the item it popped at the end of an example
\* discards it because of that example: the AST recognizes the examples
\* before it.
C26_HeldAstsRecognizePreviousExamples ==
    /\ \A x \in heap_items(cbfs_q) :
       \A n \in 1..x.i : recognizes(store[x.ast], examples[n])
    /\ pc = "loop" /\ frame.branch = "bad" =>
          /\ \A n \in 1..(frame.i - 1) :
                 recognizes(store[frame.pq_item.ast], examples[n])
          /\ ~recognizes(store[frame.pq_item.ast], examples[frame.i])

\* The last iteration discarded an item at the end of the second example,
\* and a heap holds an item of the second example whose AST has more than
\* one leaf.
C26_DiscardedAtSecondExample ==
    /\ pc = "loop"
    /\ frame.branch = "bad"
    /\ frame.i = 2
    /\ \E x \in heap_items(cbfs_q) :
          x.i = 1 /\ x.k > 0 /\ Cardinality(leaves(store[x.ast])) > 1

\* C27: simplify() keeps the recognized language and the leaves: after the
\* call the AST has the leaves it had, with their labels, it recognizes the
\* words it recognized, and the leaves on which a prefix can end are the
\* same, so that an active leaf stays valid and recognizes_prefix(prefix,
\* leaf) gives the answer it gave.
C27_SimplifyKeepsLanguageAndLeaves ==
    phase \in {"simplified", "simplified_mutant"} =>
        /\ leaves(tree) = leaves(before)
        /\ \A leaf \in leaves(before) : label(tree, leaf) = label(before, leaf)
        /\ \A w \in CheckedWords :
              /\ recognizes_word(tree, w) <=> recognizes_word(before, w)
              /\ {leaf \in leaves(tree) : recognizes_prefix(tree, w, leaf)}
                     = {leaf \in leaves(before) :
                            recognizes_prefix(before, w, leaf)}

\* simplify() has merged two unary operators with different labels into a
\* "*" node, on a tree that recognizes a word that is not empty.
C27_UnaryOperatorsMerged ==
    /\ phase \in {"simplified", "simplified_mutant"}
    /\ tree.num_nodes < before.num_nodes
    /\ \E u \in DOMAIN tree.map_node_label :
          /\ label(tree, u) = "*"
          /\ label(before, u) # "*"
    /\ \E w \in CheckedWords : w # <<>> /\ recognizes_word(tree, w)

\* The number of fingerprints recorded in the layers from d on.
RECURSIVE num_recorded(_)
num_recorded(d) ==
    IF d \notin DOMAIN pushed_regexps THEN 0
    ELSE Cardinality(pushed_regexps[d]) + num_recorded(d + 1)

\* C28: no index of the driver is out of range.  The CBFS and the table of
\* fingerprints have the layers 0 .. D - 1, D being the sum of the lengths of
\* the examples plus one; every item is in the heap of its progression, which
\* is one of these layers, with an example index i < len(examples) and a
\* position k <= len(examples[i]); no push and no fingerprint went to a layer
\* that does not exist: the heaps hold as many items as the CBFS counts, and
\* the table holds one fingerprint for each mutant pushed.
C28_IndicesInRange ==
    /\ DOMAIN cbfs_q.queues = 0..(sum_len(examples))
    /\ DOMAIN pushed_regexps = DOMAIN cbfs_q.queues
    /\ \A d \in DOMAIN cbfs_q.queues :
       \A x \in cbfs_q.queues[d] :
          /\ x.i \in 0..(Len(examples) - 1)
          /\ x.k \in 0..Len(examples[x.i + 1])
          /\ depth_of(x) = d
    /\ Cardinality(heap_items(cbfs_q)) = cbfs_q.num_items
    /\ num_recorded(0) = ast_counter - 1
    /\ frame.branch = "expand" =>
          /\ frame.i \in 0..(Len(examples) - 1)
          /\ frame.j \in 0..(Len(frame.w) - 1)
          /\ frame.k \in 1..Len(examples[frame.i + 1])

\* The deepest layer holds an item: the last example, all of it consumed.
C28_ItemInDeepestLayer ==
    /\ pc = "loop"
    /\ sum_len(examples) = MaxTotalLen
    /\ \E x \in cbfs_q.queues[sum_len(examples)] :
          /\ x.i = Len(examples) - 1
          /\ x.k = Len(examples[Len(examples)])

\* The nodes that can be reached from u by the lists of children.
RECURSIVE reachable_from(_, _)
reachable_from(ast, u) ==
    IF u \notin DOMAIN ast.map_node_children THEN {}
    ELSE {u} \cup UNION {reachable_from(ast, c) : c \in Range(children(ast, u))}

well_formed(ast) ==
    LET live == DOMAIN ast.map_node_label
    IN /\ ast.root \in live
       /\ label(ast, ast.root) = ROOT
       /\ Len(children(ast, ast.root)) = 1
       /\ DOMAIN ast.map_node_children = live
       /\ \A u \in live :
          \A n \in DOMAIN children(ast, u) :
             LET c == children(ast, u)[n]
             IN /\ c \in live \/ (u = ast.root /\ c = None)
                /\ parent(ast, c) = u
                /\ \A m \in DOMAIN children(ast, u) :
                       m # n => children(ast, u)[m] # c
       /\ reachable_from(ast, ast.root) = live
       /\ ast.num_nodes = Cardinality(live)

\* C29: every AST of a run, made from the empty AST by calls of mutators
\* each followed by simplify(), is a well-formed tree: the parent of every
\* child of u is u, every live node is reachable from the root, the root is
\* there with exactly one child, and num_nodes is the number of live nodes,
\* the root included.
C29_AstsAreWellFormedTrees ==
    \A obj \in DOMAIN store : well_formed(store[obj])

\* A run has made an AST of six nodes or more in which simplify() merged two
\* unary operators into a "*" node, and an AST with a "|" node.
C29_LargeSimplifiedAsts ==
    /\ pc = "done"
    /\ \E obj \in DOMAIN store :
          /\ store[obj].num_nodes >= 6
          /\ store[obj].nodes_id > store[obj].num_nodes
          /\ \E u \in DOMAIN store[obj].map_node_label : label(store[obj], u) = "*"
    /\ \E obj \in DOMAIN store :
       \E u \in DOMAIN store[obj].map_node_label : label(store[obj], u) = "|"

\* asts_to_bounce_on of a call of mutate on the arc (u, v): empty for a mutator
\* that does not bounce, and for a bouncing one that returns [] at its condition.
asts_to_bounce_on_of(name, ast, u, v, eps) ==
    CASE name = "BouncePlusMutator" -> BouncePlus_asts_to_bounce_on(ast, u, v, eps)
      [] name = "BounceQuestionMutator" -> BounceQuestion_asts_to_bounce_on(ast, u, v, eps)
      [] OTHER -> <<>>

\* A call of mutate and every call nested in it return, with at most fuel
\* bouncing calls inside one another that pass their condition: the calls a
\* bouncing mutator makes are those of every mutator of mutators_to_bounce_on
\* on every newly epsilon-reachable arc of every AST of asts_to_bounce_on.
RECURSIVE returns_within(_, _, _, _, _, _, _)
returns_within(name, ast, ctx, u, v, eps, fuel) ==
    LET entries == asts_to_bounce_on_of(name, ast, u, v, eps)
    IN \/ entries = <<>>
       \/ /\ fuel > 0
          /\ \A k \in DOMAIN entries :
             \A arc \in entries[k].newly_eps_reachables :
             \A nm \in Range(ctx.mutators_to_bounce_on) :
                 returns_within(nm, entries[k].new_ast, ctx, arc[1], arc[2],
                                entries[k].all_epsilon_reachables, fuel - 1)

\* C30: on a simplified AST, for every arc that is epsilon-reachable from a
\* leaf or from the root and every symbol, a call of mutate of
\* BouncePlusMutator or of BounceQuestionMutator built with the whole of
\* MUTATORS as mutators_to_bounce_on returns: the bouncing calls it nests
\* inside one another, bouncing mutators re-entered on the newly reachable
\* arcs included, are fewer than the AST has nodes, and every mutant of the
\* finite list it returns was made by at most that many calls.
C30_BounceCallsReturn ==
    phase = "simplified" /\ tree.num_nodes <= MaxMutateNodes =>
        \A leaf \in active_leaves(tree) :
        \A arc \in arcs_from(tree, leaf) :
        \A c \in Alphabet :
        \A name \in Range(BOUNCING_MUTATORS) :
            /\ mutator_context(c).mutators_to_bounce_on = MUTATORS
            /\ returns_within(name, tree, mutator_context(c), arc[1], arc[2],
                              arcs_from(tree, leaf), tree.num_nodes - 1)
            /\ \A r \in Range(mutate(name, tree, mutator_context(c), arc[1], arc[2],
                                     arcs_from(tree, leaf), <<>>)) :
                   Len(makers(r.obj)) <= tree.num_nodes

\* C30 happens: a bouncing mutator whose call, made inside the call of a
\* bouncing mutator on a newly reachable arc, passes its condition and makes
\* calls of its own, one of which returns a mutant.
C30_BounceInsideBounce ==
    /\ phase = "simplified"
    /\ tree.num_nodes <= MaxMutateNodes
    /\ \E leaf \in active_leaves(tree) :
       \E arc \in arcs_from(tree, leaf) :
       \E c \in Alphabet :
       \E name \in Range(BOUNCING_MUTATORS) :
           /\ ~returns_within(name, tree, mutator_context(c), arc[1], arc[2],
                              arcs_from(tree, leaf), 1)
           /\ \E r \in Range(mutate(name, tree, mutator_context(c), arc[1], arc[2],
                                    arcs_from(tree, leaf), <<>>)) :
                  /\ Len(makers(r.obj)) >= 3
                  /\ makers(r.obj)[2] \in Range(BOUNCING_MUTATORS)

=========================================================================
